---- MODULE Spec2Model ----
(***************************************************************************)
(* Register map of the CTU CAN FD IP core (driver/ctu_can_fd_regs.h).      *)
(*                                                                         *)
(* The header is a table: an enum of register byte offsets, one union per  *)
(* 32-bit word giving the bitfields of the register(s) in that word in two *)
(* declaration orders selected by the preprocessor, and enums naming the   *)
(* values of some fields.  The tables below are a transliteration of the   *)
(* declarations.  The state machines model what the declarations are used  *)
(* for: a translation unit is compiled under a build configuration, a      *)
(* register is addressed, and its word is accessed through the raw member  *)
(* u32 or through the bitfields of the member s.                           *)
(*                                                                         *)
(* A 32-bit value is modelled as the set of its bit positions that are 1,  *)
(* so that bit 31 is representable; a field value is the set of the        *)
(* positions, counted from the field's least significant bit, that are 1.  *)
(***************************************************************************)
EXTENDS Integers, Sequences, FiniteSets, TLC

VARIABLES
  macros,   \* the macros defined in this build
  prev,     \* name of the register addressed before reg (address walk)
  reg,      \* name of the register being accessed, "" when none is
  un,       \* name of the union used for it, "" if the file has none
  s,        \* member s of that union as this build lays it out
  u32,      \* the word's content
  nw,       \* field stores since the word was last written as a whole
  last      \* the last access

vars == << macros, prev, reg, un, s, u32, nw, last >>

\* Mutation of ctu_can_fd_can_registers: INT_ENA_SET is placed at 0xa, inside
\* the word of INT_STAT.
ctu_can_fd_can_registers_overlap ==
  << [name |-> "CTU_CAN_FD_DEVICE_ID", offset |-> \h0],
     [name |-> "CTU_CAN_FD_VERSION", offset |-> \h2],
     [name |-> "CTU_CAN_FD_MODE", offset |-> \h4],
     [name |-> "CTU_CAN_FD_COMMAND", offset |-> \h5],
     [name |-> "CTU_CAN_FD_STATUS", offset |-> \h6],
     [name |-> "CTU_CAN_FD_SETTINGS", offset |-> \h7],
     [name |-> "CTU_CAN_FD_INT_STAT", offset |-> \h8],
     [name |-> "CTU_CAN_FD_INT_ENA_SET", offset |-> \ha],
     [name |-> "CTU_CAN_FD_INT_ENA_CLR", offset |-> \h10],
     [name |-> "CTU_CAN_FD_INT_MASK_SET", offset |-> \h14],
     [name |-> "CTU_CAN_FD_INT_MASK_CLR", offset |-> \h18],
     [name |-> "CTU_CAN_FD_BTR", offset |-> \h1c],
     [name |-> "CTU_CAN_FD_BTR_FD", offset |-> \h20],
     [name |-> "CTU_CAN_FD_EWL", offset |-> \h24],
     [name |-> "CTU_CAN_FD_ERP", offset |-> \h25],
     [name |-> "CTU_CAN_FD_FAULT_STATE", offset |-> \h26],
     [name |-> "CTU_CAN_FD_RXC", offset |-> \h28],
     [name |-> "CTU_CAN_FD_TXC", offset |-> \h2a],
     [name |-> "CTU_CAN_FD_ERR_NORM", offset |-> \h2c],
     [name |-> "CTU_CAN_FD_ERR_FD", offset |-> \h2e],
     [name |-> "CTU_CAN_FD_CTR_PRES", offset |-> \h30],
     [name |-> "CTU_CAN_FD_FILTER_A_MASK", offset |-> \h34],
     [name |-> "CTU_CAN_FD_FILTER_A_VAL", offset |-> \h38],
     [name |-> "CTU_CAN_FD_FILTER_B_MASK", offset |-> \h3c],
     [name |-> "CTU_CAN_FD_FILTER_B_VAL", offset |-> \h40],
     [name |-> "CTU_CAN_FD_FILTER_C_MASK", offset |-> \h44],
     [name |-> "CTU_CAN_FD_FILTER_C_VAL", offset |-> \h48],
     [name |-> "CTU_CAN_FD_FILTER_RAN_LOW", offset |-> \h4c],
     [name |-> "CTU_CAN_FD_FILTER_RAN_HIGH", offset |-> \h50],
     [name |-> "CTU_CAN_FD_FILTER_CONTROL", offset |-> \h54],
     [name |-> "CTU_CAN_FD_FILTER_STATUS", offset |-> \h56],
     [name |-> "CTU_CAN_FD_RX_MEM_INFO", offset |-> \h58],
     [name |-> "CTU_CAN_FD_RX_POINTERS", offset |-> \h5c],
     [name |-> "CTU_CAN_FD_RX_STATUS", offset |-> \h60],
     [name |-> "CTU_CAN_FD_RX_SETTINGS", offset |-> \h62],
     [name |-> "CTU_CAN_FD_RX_DATA", offset |-> \h64],
     [name |-> "CTU_CAN_FD_TX_STATUS", offset |-> \h68],
     [name |-> "CTU_CAN_FD_TX_COMMAND", offset |-> \h6c],
     [name |-> "CTU_CAN_FD_TX_PRIORITY", offset |-> \h70],
     [name |-> "CTU_CAN_FD_ERR_CAPT", offset |-> \h74],
     [name |-> "CTU_CAN_FD_ALC", offset |-> \h75],
     [name |-> "CTU_CAN_FD_TRV_DELAY", offset |-> \h78],
     [name |-> "CTU_CAN_FD_SSP_CFG", offset |-> \h7a],
     [name |-> "CTU_CAN_FD_RX_COUNTER", offset |-> \h7c],
     [name |-> "CTU_CAN_FD_TX_COUNTER", offset |-> \h80],
     [name |-> "CTU_CAN_FD_DEBUG_REGISTER", offset |-> \h84],
     [name |-> "CTU_CAN_FD_YOLO_REG", offset |-> \h88],
     [name |-> "CTU_CAN_FD_TIMESTAMP_LOW", offset |-> \h8c],
     [name |-> "CTU_CAN_FD_TIMESTAMP_HIGH", offset |-> \h90],
     [name |-> "CTU_CAN_FD_TXTB1_DATA_1", offset |-> \h100],
     [name |-> "CTU_CAN_FD_TXTB1_DATA_2", offset |-> \h104],
     [name |-> "CTU_CAN_FD_TXTB1_DATA_20", offset |-> \h14c],
     [name |-> "CTU_CAN_FD_TXTB2_DATA_1", offset |-> \h200],
     [name |-> "CTU_CAN_FD_TXTB2_DATA_2", offset |-> \h204],
     [name |-> "CTU_CAN_FD_TXTB2_DATA_20", offset |-> \h24c],
     [name |-> "CTU_CAN_FD_TXTB3_DATA_1", offset |-> \h300],
     [name |-> "CTU_CAN_FD_TXTB3_DATA_2", offset |-> \h304],
     [name |-> "CTU_CAN_FD_TXTB3_DATA_20", offset |-> \h34c],
     [name |-> "CTU_CAN_FD_TXTB4_DATA_1", offset |-> \h400],
     [name |-> "CTU_CAN_FD_TXTB4_DATA_2", offset |-> \h404],
     [name |-> "CTU_CAN_FD_TXTB4_DATA_20", offset |-> \h44c],
     [name |-> "CTU_CAN_FD_LOG_TRIG_CONFIG", offset |-> \h500],
     [name |-> "CTU_CAN_FD_LOG_CAPT_CONFIG", offset |-> \h504],
     [name |-> "CTU_CAN_FD_LOG_STATUS", offset |-> \h508],
     [name |-> "CTU_CAN_FD_LOG_POINTERS", offset |-> \h50a],
     [name |-> "CTU_CAN_FD_LOG_COMMAND", offset |-> \h50c],
     [name |-> "CTU_CAN_FD_LOG_CAPT_EVENT_1", offset |-> \h510],
     [name |-> "CTU_CAN_FD_LOG_CAPT_EVENT_2", offset |-> \h514] >>

\* enum ctu_can_fd_can_registers: the byte offset of every register, in
\* declaration order.
ctu_can_fd_can_registers ==
  << [name |-> "CTU_CAN_FD_DEVICE_ID", offset |-> \h0],
     [name |-> "CTU_CAN_FD_VERSION", offset |-> \h2],
     [name |-> "CTU_CAN_FD_MODE", offset |-> \h4],
     [name |-> "CTU_CAN_FD_COMMAND", offset |-> \h5],
     [name |-> "CTU_CAN_FD_STATUS", offset |-> \h6],
     [name |-> "CTU_CAN_FD_SETTINGS", offset |-> \h7],
     [name |-> "CTU_CAN_FD_INT_STAT", offset |-> \h8],
     [name |-> "CTU_CAN_FD_INT_ENA_SET", offset |-> \hc],
     [name |-> "CTU_CAN_FD_INT_ENA_CLR", offset |-> \h10],
     [name |-> "CTU_CAN_FD_INT_MASK_SET", offset |-> \h14],
     [name |-> "CTU_CAN_FD_INT_MASK_CLR", offset |-> \h18],
     [name |-> "CTU_CAN_FD_BTR", offset |-> \h1c],
     [name |-> "CTU_CAN_FD_BTR_FD", offset |-> \h20],
     [name |-> "CTU_CAN_FD_EWL", offset |-> \h24],
     [name |-> "CTU_CAN_FD_ERP", offset |-> \h25],
     [name |-> "CTU_CAN_FD_FAULT_STATE", offset |-> \h26],
     [name |-> "CTU_CAN_FD_RXC", offset |-> \h28],
     [name |-> "CTU_CAN_FD_TXC", offset |-> \h2a],
     [name |-> "CTU_CAN_FD_ERR_NORM", offset |-> \h2c],
     [name |-> "CTU_CAN_FD_ERR_FD", offset |-> \h2e],
     [name |-> "CTU_CAN_FD_CTR_PRES", offset |-> \h30],
     [name |-> "CTU_CAN_FD_FILTER_A_MASK", offset |-> \h34],
     [name |-> "CTU_CAN_FD_FILTER_A_VAL", offset |-> \h38],
     [name |-> "CTU_CAN_FD_FILTER_B_MASK", offset |-> \h3c],
     [name |-> "CTU_CAN_FD_FILTER_B_VAL", offset |-> \h40],
     [name |-> "CTU_CAN_FD_FILTER_C_MASK", offset |-> \h44],
     [name |-> "CTU_CAN_FD_FILTER_C_VAL", offset |-> \h48],
     [name |-> "CTU_CAN_FD_FILTER_RAN_LOW", offset |-> \h4c],
     [name |-> "CTU_CAN_FD_FILTER_RAN_HIGH", offset |-> \h50],
     [name |-> "CTU_CAN_FD_FILTER_CONTROL", offset |-> \h54],
     [name |-> "CTU_CAN_FD_FILTER_STATUS", offset |-> \h56],
     [name |-> "CTU_CAN_FD_RX_MEM_INFO", offset |-> \h58],
     [name |-> "CTU_CAN_FD_RX_POINTERS", offset |-> \h5c],
     [name |-> "CTU_CAN_FD_RX_STATUS", offset |-> \h60],
     [name |-> "CTU_CAN_FD_RX_SETTINGS", offset |-> \h62],
     [name |-> "CTU_CAN_FD_RX_DATA", offset |-> \h64],
     [name |-> "CTU_CAN_FD_TX_STATUS", offset |-> \h68],
     [name |-> "CTU_CAN_FD_TX_COMMAND", offset |-> \h6c],
     [name |-> "CTU_CAN_FD_TX_PRIORITY", offset |-> \h70],
     [name |-> "CTU_CAN_FD_ERR_CAPT", offset |-> \h74],
     [name |-> "CTU_CAN_FD_ALC", offset |-> \h75],
     [name |-> "CTU_CAN_FD_TRV_DELAY", offset |-> \h78],
     [name |-> "CTU_CAN_FD_SSP_CFG", offset |-> \h7a],
     [name |-> "CTU_CAN_FD_RX_COUNTER", offset |-> \h7c],
     [name |-> "CTU_CAN_FD_TX_COUNTER", offset |-> \h80],
     [name |-> "CTU_CAN_FD_DEBUG_REGISTER", offset |-> \h84],
     [name |-> "CTU_CAN_FD_YOLO_REG", offset |-> \h88],
     [name |-> "CTU_CAN_FD_TIMESTAMP_LOW", offset |-> \h8c],
     [name |-> "CTU_CAN_FD_TIMESTAMP_HIGH", offset |-> \h90],
     [name |-> "CTU_CAN_FD_TXTB1_DATA_1", offset |-> \h100],
     [name |-> "CTU_CAN_FD_TXTB1_DATA_2", offset |-> \h104],
     [name |-> "CTU_CAN_FD_TXTB1_DATA_20", offset |-> \h14c],
     [name |-> "CTU_CAN_FD_TXTB2_DATA_1", offset |-> \h200],
     [name |-> "CTU_CAN_FD_TXTB2_DATA_2", offset |-> \h204],
     [name |-> "CTU_CAN_FD_TXTB2_DATA_20", offset |-> \h24c],
     [name |-> "CTU_CAN_FD_TXTB3_DATA_1", offset |-> \h300],
     [name |-> "CTU_CAN_FD_TXTB3_DATA_2", offset |-> \h304],
     [name |-> "CTU_CAN_FD_TXTB3_DATA_20", offset |-> \h34c],
     [name |-> "CTU_CAN_FD_TXTB4_DATA_1", offset |-> \h400],
     [name |-> "CTU_CAN_FD_TXTB4_DATA_2", offset |-> \h404],
     [name |-> "CTU_CAN_FD_TXTB4_DATA_20", offset |-> \h44c],
     [name |-> "CTU_CAN_FD_LOG_TRIG_CONFIG", offset |-> \h500],
     [name |-> "CTU_CAN_FD_LOG_CAPT_CONFIG", offset |-> \h504],
     [name |-> "CTU_CAN_FD_LOG_STATUS", offset |-> \h508],
     [name |-> "CTU_CAN_FD_LOG_POINTERS", offset |-> \h50a],
     [name |-> "CTU_CAN_FD_LOG_COMMAND", offset |-> \h50c],
     [name |-> "CTU_CAN_FD_LOG_CAPT_EVENT_1", offset |-> \h510],
     [name |-> "CTU_CAN_FD_LOG_CAPT_EVENT_2", offset |-> \h514] >>

ctu_can_fd_device_id_version ==
  [name |-> "ctu_can_fd_device_id_version", raw |-> "u32",
   s |-> << [dir |-> "#ifdef", macro |-> "__LITTLE_ENDIAN_BITFIELD",
             fields |-> << [reg |-> "DEVICE_ID", name |-> "device_id", width |-> 16],
                           [reg |-> "VERSION", name |-> "ver_minor", width |-> 8],
                           [reg |-> "VERSION", name |-> "ver_major", width |-> 8] >>],
            [dir |-> "#else", macro |-> "",
             fields |-> << [name |-> "ver_major", width |-> 8],
                           [name |-> "ver_minor", width |-> 8],
                           [name |-> "device_id", width |-> 16] >>] >>]

ctu_can_fd_device_id_device_id ==
  [name |-> "ctu_can_fd_device_id_device_id", reg |-> "DEVICE_ID", field |-> "device_id",
   consts |-> << [name |-> "CTU_CAN_FD_ID", value |-> \hcafd] >>]

ctu_can_fd_mode_command_status_settings ==
  [name |-> "ctu_can_fd_mode_command_status_settings", raw |-> "u32",
   s |-> << [dir |-> "#ifdef", macro |-> "__LITTLE_ENDIAN_BITFIELD",
             fields |-> << [reg |-> "MODE", name |-> "rst", width |-> 1],
                           [reg |-> "MODE", name |-> "lom", width |-> 1],
                           [reg |-> "MODE", name |-> "stm", width |-> 1],
                           [reg |-> "MODE", name |-> "afm", width |-> 1],
                           [reg |-> "MODE", name |-> "fde", width |-> 1],
                           [reg |-> "MODE", name |-> "rtrp", width |-> 1],
                           [reg |-> "MODE", name |-> "tsm", width |-> 1],
                           [reg |-> "MODE", name |-> "acf", width |-> 1],
                           [reg |-> "MODE", name |-> "reserved_8", width |-> 1],
                           [reg |-> "COMMAND", name |-> "abt", width |-> 1],
                           [reg |-> "COMMAND", name |-> "rrb", width |-> 1],
                           [reg |-> "COMMAND", name |-> "cdo", width |-> 1],
                           [reg |-> "COMMAND", name |-> "ercrst", width |-> 1],
                           [reg |-> "COMMAND", name |-> "rxfcrst", width |-> 1],
                           [reg |-> "COMMAND", name |-> "txfcrst", width |-> 1],
                           [reg |-> "COMMAND", name |-> "reserved_15", width |-> 1],
                           [reg |-> "STATUS", name |-> "rxne", width |-> 1],
                           [reg |-> "STATUS", name |-> "dor", width |-> 1],
                           [reg |-> "STATUS", name |-> "txnf", width |-> 1],
                           [reg |-> "STATUS", name |-> "eft", width |-> 1],
                           [reg |-> "STATUS", name |-> "rxs", width |-> 1],
                           [reg |-> "STATUS", name |-> "txs", width |-> 1],
                           [reg |-> "STATUS", name |-> "ewl", width |-> 1],
                           [reg |-> "STATUS", name |-> "idle", width |-> 1],
                           [reg |-> "SETTINGS", name |-> "rtrle", width |-> 1],
                           [reg |-> "SETTINGS", name |-> "rtrth", width |-> 4],
                           [reg |-> "SETTINGS", name |-> "ilbp", width |-> 1],
                           [reg |-> "SETTINGS", name |-> "ena", width |-> 1],
                           [reg |-> "SETTINGS", name |-> "nisofd", width |-> 1] >>],
            [dir |-> "#else", macro |-> "",
             fields |-> << [name |-> "nisofd", width |-> 1],
                           [name |-> "ena", width |-> 1],
                           [name |-> "ilbp", width |-> 1],
                           [name |-> "rtrth", width |-> 4],
                           [name |-> "rtrle", width |-> 1],
                           [name |-> "idle", width |-> 1],
                           [name |-> "ewl", width |-> 1],
                           [name |-> "txs", width |-> 1],
                           [name |-> "rxs", width |-> 1],
                           [name |-> "eft", width |-> 1],
                           [name |-> "txnf", width |-> 1],
                           [name |-> "dor", width |-> 1],
                           [name |-> "rxne", width |-> 1],
                           [name |-> "reserved_15", width |-> 1],
                           [name |-> "txfcrst", width |-> 1],
                           [name |-> "rxfcrst", width |-> 1],
                           [name |-> "ercrst", width |-> 1],
                           [name |-> "cdo", width |-> 1],
                           [name |-> "rrb", width |-> 1],
                           [name |-> "abt", width |-> 1],
                           [name |-> "reserved_8", width |-> 1],
                           [name |-> "acf", width |-> 1],
                           [name |-> "tsm", width |-> 1],
                           [name |-> "rtrp", width |-> 1],
                           [name |-> "fde", width |-> 1],
                           [name |-> "afm", width |-> 1],
                           [name |-> "stm", width |-> 1],
                           [name |-> "lom", width |-> 1],
                           [name |-> "rst", width |-> 1] >>] >>]

ctu_can_fd_mode_lom ==
  [name |-> "ctu_can_fd_mode_lom", reg |-> "MODE", field |-> "lom",
   consts |-> << [name |-> "LOM_DISABLED", value |-> \h0],
                 [name |-> "LOM_ENABLED", value |-> \h1] >>]

ctu_can_fd_mode_stm ==
  [name |-> "ctu_can_fd_mode_stm", reg |-> "MODE", field |-> "stm",
   consts |-> << [name |-> "STM_DISABLED", value |-> \h0],
                 [name |-> "STM_ENABLED", value |-> \h1] >>]

ctu_can_fd_mode_afm ==
  [name |-> "ctu_can_fd_mode_afm", reg |-> "MODE", field |-> "afm",
   consts |-> << [name |-> "AFM_DISABLED", value |-> \h0],
                 [name |-> "AFM_ENABLED", value |-> \h1] >>]

ctu_can_fd_mode_fde ==
  [name |-> "ctu_can_fd_mode_fde", reg |-> "MODE", field |-> "fde",
   consts |-> << [name |-> "FDE_DISABLE", value |-> \h0],
                 [name |-> "FDE_ENABLE", value |-> \h1] >>]

ctu_can_fd_mode_rtrp ==
  [name |-> "ctu_can_fd_mode_rtrp", reg |-> "MODE", field |-> "rtrp",
   consts |-> << [name |-> "RTR_EXTRA", value |-> \h0],
                 [name |-> "RTR_STANDARD", value |-> \h1] >>]

ctu_can_fd_mode_tsm ==
  [name |-> "ctu_can_fd_mode_tsm", reg |-> "MODE", field |-> "tsm",
   consts |-> << [name |-> "TSM_DISABLE", value |-> \h0],
                 [name |-> "TSM_ENABLE", value |-> \h1] >>]

ctu_can_fd_mode_acf ==
  [name |-> "ctu_can_fd_mode_acf", reg |-> "MODE", field |-> "acf",
   consts |-> << [name |-> "ACF_DISABLED", value |-> \h0],
                 [name |-> "ACF_ENABLED", value |-> \h1] >>]

ctu_can_fd_settings_rtrle ==
  [name |-> "ctu_can_fd_settings_rtrle", reg |-> "SETTINGS", field |-> "rtrle",
   consts |-> << [name |-> "RTRLE_DISABLED", value |-> \h0],
                 [name |-> "RTRLE_ENABLED", value |-> \h1] >>]

ctu_can_fd_settings_ilbp ==
  [name |-> "ctu_can_fd_settings_ilbp", reg |-> "SETTINGS", field |-> "ilbp",
   consts |-> << [name |-> "INT_LOOP_DISABLED", value |-> \h0],
                 [name |-> "INT_LOOP_ENABLED", value |-> \h1] >>]

ctu_can_fd_settings_ena ==
  [name |-> "ctu_can_fd_settings_ena", reg |-> "SETTINGS", field |-> "ena",
   consts |-> << [name |-> "DISABLED", value |-> \h0],
                 [name |-> "ENABLED", value |-> \h1] >>]

ctu_can_fd_settings_nisofd ==
  [name |-> "ctu_can_fd_settings_nisofd", reg |-> "SETTINGS", field |-> "nisofd",
   consts |-> << [name |-> "ISO_FD", value |-> \h0],
                 [name |-> "NON_ISO_FD", value |-> \h1] >>]

ctu_can_fd_int_stat ==
  [name |-> "ctu_can_fd_int_stat", raw |-> "u32",
   s |-> << [dir |-> "#ifdef", macro |-> "__LITTLE_ENDIAN_BITFIELD",
             fields |-> << [reg |-> "INT_STAT", name |-> "rxi", width |-> 1],
                           [reg |-> "INT_STAT", name |-> "txi", width |-> 1],
                           [reg |-> "INT_STAT", name |-> "ewli", width |-> 1],
                           [reg |-> "INT_STAT", name |-> "doi", width |-> 1],
                           [reg |-> "INT_STAT", name |-> "epi", width |-> 1],
                           [reg |-> "INT_STAT", name |-> "ali", width |-> 1],
                           [reg |-> "INT_STAT", name |-> "bei", width |-> 1],
                           [reg |-> "INT_STAT", name |-> "lfi", width |-> 1],
                           [reg |-> "INT_STAT", name |-> "rxfi", width |-> 1],
                           [reg |-> "INT_STAT", name |-> "bsi", width |-> 1],
                           [reg |-> "INT_STAT", name |-> "rbnei", width |-> 1],
                           [reg |-> "INT_STAT", name |-> "txbhci", width |-> 1],
                           [reg |-> "INT_STAT", name |-> "reserved_31_12", width |-> 20] >>],
            [dir |-> "#else", macro |-> "",
             fields |-> << [name |-> "reserved_31_12", width |-> 20],
                           [name |-> "txbhci", width |-> 1],
                           [name |-> "rbnei", width |-> 1],
                           [name |-> "bsi", width |-> 1],
                           [name |-> "rxfi", width |-> 1],
                           [name |-> "lfi", width |-> 1],
                           [name |-> "bei", width |-> 1],
                           [name |-> "ali", width |-> 1],
                           [name |-> "epi", width |-> 1],
                           [name |-> "doi", width |-> 1],
                           [name |-> "ewli", width |-> 1],
                           [name |-> "txi", width |-> 1],
                           [name |-> "rxi", width |-> 1] >>] >>]

\* Mutation of ctu_can_fd_int_ena_set: the conditional tests
\* __BIG_ENDIAN_BITFIELD.
ctu_can_fd_int_ena_set_big_macro ==
  [name |-> "ctu_can_fd_int_ena_set", raw |-> "u32",
   s |-> << [dir |-> "#ifdef", macro |-> "__BIG_ENDIAN_BITFIELD",
             fields |-> << [reg |-> "INT_ENA_SET", name |-> "int_ena_set", width |-> 12],
                           [reg |-> "INT_ENA_SET", name |-> "reserved_31_12", width |-> 20] >>],
            [dir |-> "#else", macro |-> "",
             fields |-> << [name |-> "reserved_31_12", width |-> 20],
                           [name |-> "int_ena_set", width |-> 12] >>] >>]

ctu_can_fd_int_ena_set ==
  [name |-> "ctu_can_fd_int_ena_set", raw |-> "u32",
   s |-> << [dir |-> "#ifdef", macro |-> "__LITTLE_ENDIAN_BITFIELD",
             fields |-> << [reg |-> "INT_ENA_SET", name |-> "int_ena_set", width |-> 12],
                           [reg |-> "INT_ENA_SET", name |-> "reserved_31_12", width |-> 20] >>],
            [dir |-> "#else", macro |-> "",
             fields |-> << [name |-> "reserved_31_12", width |-> 20],
                           [name |-> "int_ena_set", width |-> 12] >>] >>]

ctu_can_fd_int_ena_clr ==
  [name |-> "ctu_can_fd_int_ena_clr", raw |-> "u32",
   s |-> << [dir |-> "#ifdef", macro |-> "__LITTLE_ENDIAN_BITFIELD",
             fields |-> << [reg |-> "INT_ENA_CLR", name |-> "int_ena_clr", width |-> 12],
                           [reg |-> "INT_ENA_CLR", name |-> "reserved_31_12", width |-> 20] >>],
            [dir |-> "#else", macro |-> "",
             fields |-> << [name |-> "reserved_31_12", width |-> 20],
                           [name |-> "int_ena_clr", width |-> 12] >>] >>]

\* Mutation of ctu_can_fd_int_mask_set: the field is 11 bits wide and has no
\* bit for txbhci.
ctu_can_fd_int_mask_set_short ==
  [name |-> "ctu_can_fd_int_mask_set", raw |-> "u32",
   s |-> << [dir |-> "#ifdef", macro |-> "__LITTLE_ENDIAN_BITFIELD",
             fields |-> << [reg |-> "INT_MASK_SET", name |-> "int_mask_set", width |-> 11],
                           [reg |-> "INT_MASK_SET", name |-> "reserved_31_11", width |-> 21] >>],
            [dir |-> "#else", macro |-> "",
             fields |-> << [name |-> "reserved_31_11", width |-> 21],
                           [name |-> "int_mask_set", width |-> 11] >>] >>]

ctu_can_fd_int_mask_set ==
  [name |-> "ctu_can_fd_int_mask_set", raw |-> "u32",
   s |-> << [dir |-> "#ifdef", macro |-> "__LITTLE_ENDIAN_BITFIELD",
             fields |-> << [reg |-> "INT_MASK_SET", name |-> "int_mask_set", width |-> 12],
                           [reg |-> "INT_MASK_SET", name |-> "reserved_31_12", width |-> 20] >>],
            [dir |-> "#else", macro |-> "",
             fields |-> << [name |-> "reserved_31_12", width |-> 20],
                           [name |-> "int_mask_set", width |-> 12] >>] >>]

ctu_can_fd_int_mask_clr ==
  [name |-> "ctu_can_fd_int_mask_clr", raw |-> "u32",
   s |-> << [dir |-> "#ifdef", macro |-> "__LITTLE_ENDIAN_BITFIELD",
             fields |-> << [reg |-> "INT_MASK_CLR", name |-> "int_mask_clr", width |-> 12],
                           [reg |-> "INT_MASK_CLR", name |-> "reserved_31_12", width |-> 20] >>],
            [dir |-> "#else", macro |-> "",
             fields |-> << [name |-> "reserved_31_12", width |-> 20],
                           [name |-> "int_mask_clr", width |-> 12] >>] >>]

\* Mutation of ctu_can_fd_btr: the #else list repeats the order of the
\* #ifdef list instead of reversing it.
ctu_can_fd_btr_unmirrored ==
  [name |-> "ctu_can_fd_btr", raw |-> "u32",
   s |-> << [dir |-> "#ifdef", macro |-> "__LITTLE_ENDIAN_BITFIELD",
             fields |-> << [reg |-> "BTR", name |-> "prop", width |-> 7],
                           [reg |-> "BTR", name |-> "ph1", width |-> 6],
                           [reg |-> "BTR", name |-> "ph2", width |-> 6],
                           [reg |-> "BTR", name |-> "brp", width |-> 8],
                           [reg |-> "BTR", name |-> "sjw", width |-> 5] >>],
            [dir |-> "#else", macro |-> "",
             fields |-> << [name |-> "prop", width |-> 7],
                           [name |-> "ph1", width |-> 6],
                           [name |-> "ph2", width |-> 6],
                           [name |-> "brp", width |-> 8],
                           [name |-> "sjw", width |-> 5] >>] >>]

ctu_can_fd_btr ==
  [name |-> "ctu_can_fd_btr", raw |-> "u32",
   s |-> << [dir |-> "#ifdef", macro |-> "__LITTLE_ENDIAN_BITFIELD",
             fields |-> << [reg |-> "BTR", name |-> "prop", width |-> 7],
                           [reg |-> "BTR", name |-> "ph1", width |-> 6],
                           [reg |-> "BTR", name |-> "ph2", width |-> 6],
                           [reg |-> "BTR", name |-> "brp", width |-> 8],
                           [reg |-> "BTR", name |-> "sjw", width |-> 5] >>],
            [dir |-> "#else", macro |-> "",
             fields |-> << [name |-> "sjw", width |-> 5],
                           [name |-> "brp", width |-> 8],
                           [name |-> "ph2", width |-> 6],
                           [name |-> "ph1", width |-> 6],
                           [name |-> "prop", width |-> 7] >>] >>]

\* Mutation of ctu_can_fd_btr_fd: the padding bit reserved_18 is missing
\* from both lists.
ctu_can_fd_btr_fd_short ==
  [name |-> "ctu_can_fd_btr_fd", raw |-> "u32",
   s |-> << [dir |-> "#ifdef", macro |-> "__LITTLE_ENDIAN_BITFIELD",
             fields |-> << [reg |-> "BTR_FD", name |-> "prop_fd", width |-> 6],
                           [reg |-> "BTR_FD", name |-> "reserved_6", width |-> 1],
                           [reg |-> "BTR_FD", name |-> "ph1_fd", width |-> 5],
                           [reg |-> "BTR_FD", name |-> "reserved_12", width |-> 1],
                           [reg |-> "BTR_FD", name |-> "ph2_fd", width |-> 5],
                           [reg |-> "BTR_FD", name |-> "brp_fd", width |-> 8],
                           [reg |-> "BTR_FD", name |-> "sjw_fd", width |-> 5] >>],
            [dir |-> "#else", macro |-> "",
             fields |-> << [name |-> "sjw_fd", width |-> 5],
                           [name |-> "brp_fd", width |-> 8],
                           [name |-> "ph2_fd", width |-> 5],
                           [name |-> "reserved_12", width |-> 1],
                           [name |-> "ph1_fd", width |-> 5],
                           [name |-> "reserved_6", width |-> 1],
                           [name |-> "prop_fd", width |-> 6] >>] >>]

ctu_can_fd_btr_fd ==
  [name |-> "ctu_can_fd_btr_fd", raw |-> "u32",
   s |-> << [dir |-> "#ifdef", macro |-> "__LITTLE_ENDIAN_BITFIELD",
             fields |-> << [reg |-> "BTR_FD", name |-> "prop_fd", width |-> 6],
                           [reg |-> "BTR_FD", name |-> "reserved_6", width |-> 1],
                           [reg |-> "BTR_FD", name |-> "ph1_fd", width |-> 5],
                           [reg |-> "BTR_FD", name |-> "reserved_12", width |-> 1],
                           [reg |-> "BTR_FD", name |-> "ph2_fd", width |-> 5],
                           [reg |-> "BTR_FD", name |-> "reserved_18", width |-> 1],
                           [reg |-> "BTR_FD", name |-> "brp_fd", width |-> 8],
                           [reg |-> "BTR_FD", name |-> "sjw_fd", width |-> 5] >>],
            [dir |-> "#else", macro |-> "",
             fields |-> << [name |-> "sjw_fd", width |-> 5],
                           [name |-> "brp_fd", width |-> 8],
                           [name |-> "reserved_18", width |-> 1],
                           [name |-> "ph2_fd", width |-> 5],
                           [name |-> "reserved_12", width |-> 1],
                           [name |-> "ph1_fd", width |-> 5],
                           [name |-> "reserved_6", width |-> 1],
                           [name |-> "prop_fd", width |-> 6] >>] >>]

ctu_can_fd_ewl_erp_fault_state ==
  [name |-> "ctu_can_fd_ewl_erp_fault_state", raw |-> "u32",
   s |-> << [dir |-> "#ifdef", macro |-> "__LITTLE_ENDIAN_BITFIELD",
             fields |-> << [reg |-> "EWL", name |-> "ew_limit", width |-> 8],
                           [reg |-> "ERP", name |-> "erp_limit", width |-> 8],
                           [reg |-> "FAULT_STATE", name |-> "era", width |-> 1],
                           [reg |-> "FAULT_STATE", name |-> "erp", width |-> 1],
                           [reg |-> "FAULT_STATE", name |-> "bof", width |-> 1],
                           [reg |-> "FAULT_STATE", name |-> "reserved_31_19", width |-> 13] >>],
            [dir |-> "#else", macro |-> "",
             fields |-> << [name |-> "reserved_31_19", width |-> 13],
                           [name |-> "bof", width |-> 1],
                           [name |-> "erp", width |-> 1],
                           [name |-> "era", width |-> 1],
                           [name |-> "erp_limit", width |-> 8],
                           [name |-> "ew_limit", width |-> 8] >>] >>]

\* Mutation of ctu_can_fd_rxc_txc: the second half is grouped under
\* ERR_NORM, a register of the next word.
ctu_can_fd_rxc_txc_mislabelled ==
  [name |-> "ctu_can_fd_rxc_txc", raw |-> "u32",
   s |-> << [dir |-> "#ifdef", macro |-> "__LITTLE_ENDIAN_BITFIELD",
             fields |-> << [reg |-> "RXC", name |-> "rxc_val", width |-> 16],
                           [reg |-> "ERR_NORM", name |-> "txc_val", width |-> 16] >>],
            [dir |-> "#else", macro |-> "",
             fields |-> << [name |-> "txc_val", width |-> 16],
                           [name |-> "rxc_val", width |-> 16] >>] >>]

ctu_can_fd_rxc_txc ==
  [name |-> "ctu_can_fd_rxc_txc", raw |-> "u32",
   s |-> << [dir |-> "#ifdef", macro |-> "__LITTLE_ENDIAN_BITFIELD",
             fields |-> << [reg |-> "RXC", name |-> "rxc_val", width |-> 16],
                           [reg |-> "TXC", name |-> "txc_val", width |-> 16] >>],
            [dir |-> "#else", macro |-> "",
             fields |-> << [name |-> "txc_val", width |-> 16],
                           [name |-> "rxc_val", width |-> 16] >>] >>]

ctu_can_fd_err_norm_err_fd ==
  [name |-> "ctu_can_fd_err_norm_err_fd", raw |-> "u32",
   s |-> << [dir |-> "#ifdef", macro |-> "__LITTLE_ENDIAN_BITFIELD",
             fields |-> << [reg |-> "ERR_NORM", name |-> "err_norm_val", width |-> 16],
                           [reg |-> "ERR_FD", name |-> "err_fd_val", width |-> 16] >>],
            [dir |-> "#else", macro |-> "",
             fields |-> << [name |-> "err_fd_val", width |-> 16],
                           [name |-> "err_norm_val", width |-> 16] >>] >>]

\* Mutation of ctu_can_fd_ctr_pres: ctpv is declared 10 bits wide.
ctu_can_fd_ctr_pres_wide ==
  [name |-> "ctu_can_fd_ctr_pres", raw |-> "u32",
   s |-> << [dir |-> "#ifdef", macro |-> "__LITTLE_ENDIAN_BITFIELD",
             fields |-> << [reg |-> "CTR_PRES", name |-> "ctpv", width |-> 10],
                           [reg |-> "CTR_PRES", name |-> "ptx", width |-> 1],
                           [reg |-> "CTR_PRES", name |-> "prx", width |-> 1],
                           [reg |-> "CTR_PRES", name |-> "enorm", width |-> 1],
                           [reg |-> "CTR_PRES", name |-> "efd", width |-> 1],
                           [reg |-> "CTR_PRES", name |-> "reserved_31_13", width |-> 19] >>],
            [dir |-> "#else", macro |-> "",
             fields |-> << [name |-> "reserved_31_13", width |-> 19],
                           [name |-> "efd", width |-> 1],
                           [name |-> "enorm", width |-> 1],
                           [name |-> "prx", width |-> 1],
                           [name |-> "ptx", width |-> 1],
                           [name |-> "ctpv", width |-> 10] >>] >>]

ctu_can_fd_ctr_pres ==
  [name |-> "ctu_can_fd_ctr_pres", raw |-> "u32",
   s |-> << [dir |-> "#ifdef", macro |-> "__LITTLE_ENDIAN_BITFIELD",
             fields |-> << [reg |-> "CTR_PRES", name |-> "ctpv", width |-> 9],
                           [reg |-> "CTR_PRES", name |-> "ptx", width |-> 1],
                           [reg |-> "CTR_PRES", name |-> "prx", width |-> 1],
                           [reg |-> "CTR_PRES", name |-> "enorm", width |-> 1],
                           [reg |-> "CTR_PRES", name |-> "efd", width |-> 1],
                           [reg |-> "CTR_PRES", name |-> "reserved_31_13", width |-> 19] >>],
            [dir |-> "#else", macro |-> "",
             fields |-> << [name |-> "reserved_31_13", width |-> 19],
                           [name |-> "efd", width |-> 1],
                           [name |-> "enorm", width |-> 1],
                           [name |-> "prx", width |-> 1],
                           [name |-> "ptx", width |-> 1],
                           [name |-> "ctpv", width |-> 9] >>] >>]

ctu_can_fd_filter_a_mask ==
  [name |-> "ctu_can_fd_filter_a_mask", raw |-> "u32",
   s |-> << [dir |-> "#ifdef", macro |-> "__LITTLE_ENDIAN_BITFIELD",
             fields |-> << [reg |-> "FILTER_A_MASK", name |-> "bit_mask_a_val", width |-> 29],
                           [reg |-> "FILTER_A_MASK", name |-> "reserved_31_29", width |-> 3] >>],
            [dir |-> "#else", macro |-> "",
             fields |-> << [name |-> "reserved_31_29", width |-> 3],
                           [name |-> "bit_mask_a_val", width |-> 29] >>] >>]

ctu_can_fd_filter_a_val ==
  [name |-> "ctu_can_fd_filter_a_val", raw |-> "u32",
   s |-> << [dir |-> "#ifdef", macro |-> "__LITTLE_ENDIAN_BITFIELD",
             fields |-> << [reg |-> "FILTER_A_VAL", name |-> "bit_val_a_val", width |-> 29],
                           [reg |-> "FILTER_A_VAL", name |-> "reserved_31_29", width |-> 3] >>],
            [dir |-> "#else", macro |-> "",
             fields |-> << [name |-> "reserved_31_29", width |-> 3],
                           [name |-> "bit_val_a_val", width |-> 29] >>] >>]

ctu_can_fd_filter_b_mask ==
  [name |-> "ctu_can_fd_filter_b_mask", raw |-> "u32",
   s |-> << [dir |-> "#ifdef", macro |-> "__LITTLE_ENDIAN_BITFIELD",
             fields |-> << [reg |-> "FILTER_B_MASK", name |-> "bit_mask_b_val", width |-> 29],
                           [reg |-> "FILTER_B_MASK", name |-> "reserved_31_29", width |-> 3] >>],
            [dir |-> "#else", macro |-> "",
             fields |-> << [name |-> "reserved_31_29", width |-> 3],
                           [name |-> "bit_mask_b_val", width |-> 29] >>] >>]

ctu_can_fd_filter_b_val ==
  [name |-> "ctu_can_fd_filter_b_val", raw |-> "u32",
   s |-> << [dir |-> "#ifdef", macro |-> "__LITTLE_ENDIAN_BITFIELD",
             fields |-> << [reg |-> "FILTER_B_VAL", name |-> "bit_val_b_val", width |-> 29],
                           [reg |-> "FILTER_B_VAL", name |-> "reserved_31_29", width |-> 3] >>],
            [dir |-> "#else", macro |-> "",
             fields |-> << [name |-> "reserved_31_29", width |-> 3],
                           [name |-> "bit_val_b_val", width |-> 29] >>] >>]

ctu_can_fd_filter_c_mask ==
  [name |-> "ctu_can_fd_filter_c_mask", raw |-> "u32",
   s |-> << [dir |-> "#ifdef", macro |-> "__LITTLE_ENDIAN_BITFIELD",
             fields |-> << [reg |-> "FILTER_C_MASK", name |-> "bit_mask_c_val", width |-> 29],
                           [reg |-> "FILTER_C_MASK", name |-> "reserved_31_29", width |-> 3] >>],
            [dir |-> "#else", macro |-> "",
             fields |-> << [name |-> "reserved_31_29", width |-> 3],
                           [name |-> "bit_mask_c_val", width |-> 29] >>] >>]

ctu_can_fd_filter_c_val ==
  [name |-> "ctu_can_fd_filter_c_val", raw |-> "u32",
   s |-> << [dir |-> "#ifdef", macro |-> "__LITTLE_ENDIAN_BITFIELD",
             fields |-> << [reg |-> "FILTER_C_VAL", name |-> "bit_val_c_val", width |-> 29],
                           [reg |-> "FILTER_C_VAL", name |-> "reserved_31_29", width |-> 3] >>],
            [dir |-> "#else", macro |-> "",
             fields |-> << [name |-> "reserved_31_29", width |-> 3],
                           [name |-> "bit_val_c_val", width |-> 29] >>] >>]

ctu_can_fd_filter_ran_low ==
  [name |-> "ctu_can_fd_filter_ran_low", raw |-> "u32",
   s |-> << [dir |-> "#ifdef", macro |-> "__LITTLE_ENDIAN_BITFIELD",
             fields |-> << [reg |-> "FILTER_RAN_LOW", name |-> "bit_ran_low_val", width |-> 29],
                           [reg |-> "FILTER_RAN_LOW", name |-> "reserved_31_29", width |-> 3] >>],
            [dir |-> "#else", macro |-> "",
             fields |-> << [name |-> "reserved_31_29", width |-> 3],
                           [name |-> "bit_ran_low_val", width |-> 29] >>] >>]

ctu_can_fd_filter_ran_high ==
  [name |-> "ctu_can_fd_filter_ran_high", raw |-> "u32",
   s |-> << [dir |-> "#ifdef", macro |-> "__LITTLE_ENDIAN_BITFIELD",
             fields |-> << [reg |-> "FILTER_RAN_HIGH", name |-> "bit_ran_high_val", width |-> 29],
                           [reg |-> "FILTER_RAN_HIGH", name |-> "reserved_31_29", width |-> 3] >>],
            [dir |-> "#else", macro |-> "",
             fields |-> << [name |-> "reserved_31_29", width |-> 3],
                           [name |-> "bit_ran_high_val", width |-> 29] >>] >>]

ctu_can_fd_filter_control_filter_status ==
  [name |-> "ctu_can_fd_filter_control_filter_status", raw |-> "u32",
   s |-> << [dir |-> "#ifdef", macro |-> "__LITTLE_ENDIAN_BITFIELD",
             fields |-> << [reg |-> "FILTER_CONTROL", name |-> "fanb", width |-> 1],
                           [reg |-> "FILTER_CONTROL", name |-> "fane", width |-> 1],
                           [reg |-> "FILTER_CONTROL", name |-> "fafb", width |-> 1],
                           [reg |-> "FILTER_CONTROL", name |-> "fafe", width |-> 1],
                           [reg |-> "FILTER_CONTROL", name |-> "fbnb", width |-> 1],
                           [reg |-> "FILTER_CONTROL", name |-> "fbne", width |-> 1],
                           [reg |-> "FILTER_CONTROL", name |-> "fbfb", width |-> 1],
                           [reg |-> "FILTER_CONTROL", name |-> "fbfe", width |-> 1],
                           [reg |-> "FILTER_CONTROL", name |-> "fcnb", width |-> 1],
                           [reg |-> "FILTER_CONTROL", name |-> "fcne", width |-> 1],
                           [reg |-> "FILTER_CONTROL", name |-> "fcfb", width |-> 1],
                           [reg |-> "FILTER_CONTROL", name |-> "fcfe", width |-> 1],
                           [reg |-> "FILTER_CONTROL", name |-> "frnb", width |-> 1],
                           [reg |-> "FILTER_CONTROL", name |-> "frne", width |-> 1],
                           [reg |-> "FILTER_CONTROL", name |-> "frfb", width |-> 1],
                           [reg |-> "FILTER_CONTROL", name |-> "frfe", width |-> 1],
                           [reg |-> "FILTER_STATUS", name |-> "sfa", width |-> 1],
                           [reg |-> "FILTER_STATUS", name |-> "sfb", width |-> 1],
                           [reg |-> "FILTER_STATUS", name |-> "sfc", width |-> 1],
                           [reg |-> "FILTER_STATUS", name |-> "sfr", width |-> 1],
                           [reg |-> "FILTER_STATUS", name |-> "reserved_31_20", width |-> 12] >>],
            [dir |-> "#else", macro |-> "",
             fields |-> << [name |-> "reserved_31_20", width |-> 12],
                           [name |-> "sfr", width |-> 1],
                           [name |-> "sfc", width |-> 1],
                           [name |-> "sfb", width |-> 1],
                           [name |-> "sfa", width |-> 1],
                           [name |-> "frfe", width |-> 1],
                           [name |-> "frfb", width |-> 1],
                           [name |-> "frne", width |-> 1],
                           [name |-> "frnb", width |-> 1],
                           [name |-> "fcfe", width |-> 1],
                           [name |-> "fcfb", width |-> 1],
                           [name |-> "fcne", width |-> 1],
                           [name |-> "fcnb", width |-> 1],
                           [name |-> "fbfe", width |-> 1],
                           [name |-> "fbfb", width |-> 1],
                           [name |-> "fbne", width |-> 1],
                           [name |-> "fbnb", width |-> 1],
                           [name |-> "fafe", width |-> 1],
                           [name |-> "fafb", width |-> 1],
                           [name |-> "fane", width |-> 1],
                           [name |-> "fanb", width |-> 1] >>] >>]

\* Mutation of ctu_can_fd_rx_mem_info: rx_buff_size is 12 bits wide and
\* rx_mem_free 14, the padding keeps its names.
ctu_can_fd_rx_mem_info_resized ==
  [name |-> "ctu_can_fd_rx_mem_info", raw |-> "u32",
   s |-> << [dir |-> "#ifdef", macro |-> "__LITTLE_ENDIAN_BITFIELD",
             fields |-> << [reg |-> "RX_MEM_INFO", name |-> "rx_buff_size", width |-> 12],
                           [reg |-> "RX_MEM_INFO", name |-> "reserved_15_13", width |-> 3],
                           [reg |-> "RX_MEM_INFO", name |-> "rx_mem_free", width |-> 14],
                           [reg |-> "RX_MEM_INFO", name |-> "reserved_31_29", width |-> 3] >>],
            [dir |-> "#else", macro |-> "",
             fields |-> << [name |-> "reserved_31_29", width |-> 3],
                           [name |-> "rx_mem_free", width |-> 14],
                           [name |-> "reserved_15_13", width |-> 3],
                           [name |-> "rx_buff_size", width |-> 12] >>] >>]

ctu_can_fd_rx_mem_info ==
  [name |-> "ctu_can_fd_rx_mem_info", raw |-> "u32",
   s |-> << [dir |-> "#ifdef", macro |-> "__LITTLE_ENDIAN_BITFIELD",
             fields |-> << [reg |-> "RX_MEM_INFO", name |-> "rx_buff_size", width |-> 13],
                           [reg |-> "RX_MEM_INFO", name |-> "reserved_15_13", width |-> 3],
                           [reg |-> "RX_MEM_INFO", name |-> "rx_mem_free", width |-> 13],
                           [reg |-> "RX_MEM_INFO", name |-> "reserved_31_29", width |-> 3] >>],
            [dir |-> "#else", macro |-> "",
             fields |-> << [name |-> "reserved_31_29", width |-> 3],
                           [name |-> "rx_mem_free", width |-> 13],
                           [name |-> "reserved_15_13", width |-> 3],
                           [name |-> "rx_buff_size", width |-> 13] >>] >>]

ctu_can_fd_rx_pointers ==
  [name |-> "ctu_can_fd_rx_pointers", raw |-> "u32",
   s |-> << [dir |-> "#ifdef", macro |-> "__LITTLE_ENDIAN_BITFIELD",
             fields |-> << [reg |-> "RX_POINTERS", name |-> "rx_wpp", width |-> 12],
                           [reg |-> "RX_POINTERS", name |-> "reserved_15_12", width |-> 4],
                           [reg |-> "RX_POINTERS", name |-> "rx_rpp", width |-> 12],
                           [reg |-> "RX_POINTERS", name |-> "reserved_31_28", width |-> 4] >>],
            [dir |-> "#else", macro |-> "",
             fields |-> << [name |-> "reserved_31_28", width |-> 4],
                           [name |-> "rx_rpp", width |-> 12],
                           [name |-> "reserved_15_12", width |-> 4],
                           [name |-> "rx_wpp", width |-> 12] >>] >>]

ctu_can_fd_rx_status_rx_settings ==
  [name |-> "ctu_can_fd_rx_status_rx_settings", raw |-> "u32",
   s |-> << [dir |-> "#ifdef", macro |-> "__LITTLE_ENDIAN_BITFIELD",
             fields |-> << [reg |-> "RX_STATUS", name |-> "rxe", width |-> 1],
                           [reg |-> "RX_STATUS", name |-> "rxf", width |-> 1],
                           [reg |-> "RX_STATUS", name |-> "reserved_3_2", width |-> 2],
                           [reg |-> "RX_STATUS", name |-> "rxfrc", width |-> 11],
                           [reg |-> "RX_STATUS", name |-> "reserved_15", width |-> 1],
                           [reg |-> "RX_SETTINGS", name |-> "rtsop", width |-> 1],
                           [reg |-> "RX_SETTINGS", name |-> "reserved_31_17", width |-> 15] >>],
            [dir |-> "#else", macro |-> "",
             fields |-> << [name |-> "reserved_31_17", width |-> 15],
                           [name |-> "rtsop", width |-> 1],
                           [name |-> "reserved_15", width |-> 1],
                           [name |-> "rxfrc", width |-> 11],
                           [name |-> "reserved_3_2", width |-> 2],
                           [name |-> "rxf", width |-> 1],
                           [name |-> "rxe", width |-> 1] >>] >>]

ctu_can_fd_rx_settings_rtsop ==
  [name |-> "ctu_can_fd_rx_settings_rtsop", reg |-> "RX_SETTINGS", field |-> "rtsop",
   consts |-> << [name |-> "RTS_END", value |-> \h0],
                 [name |-> "RTS_BEG", value |-> \h1] >>]

ctu_can_fd_rx_data ==
  [name |-> "ctu_can_fd_rx_data", raw |-> "u32",
   s |-> << [dir |-> "", macro |-> "",
             fields |-> << [reg |-> "RX_DATA", name |-> "rx_data", width |-> 32] >>] >>]

\* Mutation of ctu_can_fd_tx_status: tx4s is declared 3 bits wide, like the
\* priority fields.
ctu_can_fd_tx_status_narrow ==
  [name |-> "ctu_can_fd_tx_status", raw |-> "u32",
   s |-> << [dir |-> "#ifdef", macro |-> "__LITTLE_ENDIAN_BITFIELD",
             fields |-> << [reg |-> "TX_STATUS", name |-> "tx1s", width |-> 4],
                           [reg |-> "TX_STATUS", name |-> "tx2s", width |-> 4],
                           [reg |-> "TX_STATUS", name |-> "tx3s", width |-> 4],
                           [reg |-> "TX_STATUS", name |-> "tx4s", width |-> 3],
                           [reg |-> "TX_STATUS", name |-> "reserved_31_15", width |-> 17] >>],
            [dir |-> "#else", macro |-> "",
             fields |-> << [name |-> "reserved_31_15", width |-> 17],
                           [name |-> "tx4s", width |-> 3],
                           [name |-> "tx3s", width |-> 4],
                           [name |-> "tx2s", width |-> 4],
                           [name |-> "tx1s", width |-> 4] >>] >>]

ctu_can_fd_tx_status ==
  [name |-> "ctu_can_fd_tx_status", raw |-> "u32",
   s |-> << [dir |-> "#ifdef", macro |-> "__LITTLE_ENDIAN_BITFIELD",
             fields |-> << [reg |-> "TX_STATUS", name |-> "tx1s", width |-> 4],
                           [reg |-> "TX_STATUS", name |-> "tx2s", width |-> 4],
                           [reg |-> "TX_STATUS", name |-> "tx3s", width |-> 4],
                           [reg |-> "TX_STATUS", name |-> "tx4s", width |-> 4],
                           [reg |-> "TX_STATUS", name |-> "reserved_31_16", width |-> 16] >>],
            [dir |-> "#else", macro |-> "",
             fields |-> << [name |-> "reserved_31_16", width |-> 16],
                           [name |-> "tx4s", width |-> 4],
                           [name |-> "tx3s", width |-> 4],
                           [name |-> "tx2s", width |-> 4],
                           [name |-> "tx1s", width |-> 4] >>] >>]

ctu_can_fd_tx_status_tx1s ==
  [name |-> "ctu_can_fd_tx_status_tx1s", reg |-> "TX_STATUS", field |-> "tx1s",
   consts |-> << [name |-> "TXT_RDY", value |-> \h1],
                 [name |-> "TXT_TRAN", value |-> \h2],
                 [name |-> "TXT_ABTP", value |-> \h3],
                 [name |-> "TXT_TOK", value |-> \h4],
                 [name |-> "TXT_ERR", value |-> \h6],
                 [name |-> "TXT_ABT", value |-> \h7],
                 [name |-> "TXT_ETY", value |-> \h8] >>]

ctu_can_fd_tx_command ==
  [name |-> "ctu_can_fd_tx_command", raw |-> "u32",
   s |-> << [dir |-> "#ifdef", macro |-> "__LITTLE_ENDIAN_BITFIELD",
             fields |-> << [reg |-> "TX_COMMAND", name |-> "txce", width |-> 1],
                           [reg |-> "TX_COMMAND", name |-> "txcr", width |-> 1],
                           [reg |-> "TX_COMMAND", name |-> "txca", width |-> 1],
                           [reg |-> "TX_COMMAND", name |-> "reserved_7_3", width |-> 5],
                           [reg |-> "TX_COMMAND", name |-> "txb1", width |-> 1],
                           [reg |-> "TX_COMMAND", name |-> "txb2", width |-> 1],
                           [reg |-> "TX_COMMAND", name |-> "txb3", width |-> 1],
                           [reg |-> "TX_COMMAND", name |-> "txb4", width |-> 1],
                           [reg |-> "TX_COMMAND", name |-> "reserved_31_12", width |-> 20] >>],
            [dir |-> "#else", macro |-> "",
             fields |-> << [name |-> "reserved_31_12", width |-> 20],
                           [name |-> "txb4", width |-> 1],
                           [name |-> "txb3", width |-> 1],
                           [name |-> "txb2", width |-> 1],
                           [name |-> "txb1", width |-> 1],
                           [name |-> "reserved_7_3", width |-> 5],
                           [name |-> "txca", width |-> 1],
                           [name |-> "txcr", width |-> 1],
                           [name |-> "txce", width |-> 1] >>] >>]

ctu_can_fd_tx_priority ==
  [name |-> "ctu_can_fd_tx_priority", raw |-> "u32",
   s |-> << [dir |-> "#ifdef", macro |-> "__LITTLE_ENDIAN_BITFIELD",
             fields |-> << [reg |-> "TX_PRIORITY", name |-> "txt1p", width |-> 3],
                           [reg |-> "TX_PRIORITY", name |-> "reserved_3", width |-> 1],
                           [reg |-> "TX_PRIORITY", name |-> "txt2p", width |-> 3],
                           [reg |-> "TX_PRIORITY", name |-> "reserved_7", width |-> 1],
                           [reg |-> "TX_PRIORITY", name |-> "txt3p", width |-> 3],
                           [reg |-> "TX_PRIORITY", name |-> "reserved_11", width |-> 1],
                           [reg |-> "TX_PRIORITY", name |-> "txt4p", width |-> 3],
                           [reg |-> "TX_PRIORITY", name |-> "reserved_31_15", width |-> 17] >>],
            [dir |-> "#else", macro |-> "",
             fields |-> << [name |-> "reserved_31_15", width |-> 17],
                           [name |-> "txt4p", width |-> 3],
                           [name |-> "reserved_11", width |-> 1],
                           [name |-> "txt3p", width |-> 3],
                           [name |-> "reserved_7", width |-> 1],
                           [name |-> "txt2p", width |-> 3],
                           [name |-> "reserved_3", width |-> 1],
                           [name |-> "txt1p", width |-> 3] >>] >>]

\* Mutation of ctu_can_fd_err_capt_alc: the byte of ERR_CAPT is split 4:4
\* instead of 5:3.
ctu_can_fd_err_capt_alc_narrow ==
  [name |-> "ctu_can_fd_err_capt_alc", raw |-> "u32",
   s |-> << [dir |-> "#ifdef", macro |-> "__LITTLE_ENDIAN_BITFIELD",
             fields |-> << [reg |-> "ERR_CAPT", name |-> "err_pos", width |-> 4],
                           [reg |-> "ERR_CAPT", name |-> "err_type", width |-> 4],
                           [reg |-> "ALC", name |-> "alc_bit", width |-> 5],
                           [reg |-> "ALC", name |-> "alc_id_field", width |-> 3],
                           [reg |-> "ALC", name |-> "reserved_31_16", width |-> 16] >>],
            [dir |-> "#else", macro |-> "",
             fields |-> << [name |-> "reserved_31_16", width |-> 16],
                           [name |-> "alc_id_field", width |-> 3],
                           [name |-> "alc_bit", width |-> 5],
                           [name |-> "err_type", width |-> 4],
                           [name |-> "err_pos", width |-> 4] >>] >>]

ctu_can_fd_err_capt_alc ==
  [name |-> "ctu_can_fd_err_capt_alc", raw |-> "u32",
   s |-> << [dir |-> "#ifdef", macro |-> "__LITTLE_ENDIAN_BITFIELD",
             fields |-> << [reg |-> "ERR_CAPT", name |-> "err_pos", width |-> 5],
                           [reg |-> "ERR_CAPT", name |-> "err_type", width |-> 3],
                           [reg |-> "ALC", name |-> "alc_bit", width |-> 5],
                           [reg |-> "ALC", name |-> "alc_id_field", width |-> 3],
                           [reg |-> "ALC", name |-> "reserved_31_16", width |-> 16] >>],
            [dir |-> "#else", macro |-> "",
             fields |-> << [name |-> "reserved_31_16", width |-> 16],
                           [name |-> "alc_id_field", width |-> 3],
                           [name |-> "alc_bit", width |-> 5],
                           [name |-> "err_type", width |-> 3],
                           [name |-> "err_pos", width |-> 5] >>] >>]

ctu_can_fd_err_capt_err_pos ==
  [name |-> "ctu_can_fd_err_capt_err_pos", reg |-> "ERR_CAPT", field |-> "err_pos",
   consts |-> << [name |-> "ERC_POS_SOF", value |-> \h0],
                 [name |-> "ERC_POS_ARB", value |-> \h1],
                 [name |-> "ERC_POS_CTRL", value |-> \h2],
                 [name |-> "ERC_POS_DATA", value |-> \h3],
                 [name |-> "ERC_POS_CRC", value |-> \h4],
                 [name |-> "ERC_POS_ACK", value |-> \h5],
                 [name |-> "ERC_POS_INTF", value |-> \h6],
                 [name |-> "ERC_POS_ERR", value |-> \h7],
                 [name |-> "ERC_POS_OVRL", value |-> \h8],
                 [name |-> "ERC_POS_OTHER", value |-> \h1f] >>]

ctu_can_fd_err_capt_err_type ==
  [name |-> "ctu_can_fd_err_capt_err_type", reg |-> "ERR_CAPT", field |-> "err_type",
   consts |-> << [name |-> "ERC_BIT_ERR", value |-> \h0],
                 [name |-> "ERC_CRC_ERR", value |-> \h1],
                 [name |-> "ERC_FRM_ERR", value |-> \h2],
                 [name |-> "ERC_ACK_ERR", value |-> \h3],
                 [name |-> "ERC_STUF_ERR", value |-> \h4] >>]

ctu_can_fd_alc_alc_id_field ==
  [name |-> "ctu_can_fd_alc_alc_id_field", reg |-> "ALC", field |-> "alc_id_field",
   consts |-> << [name |-> "ALC_BASE_ID", value |-> \h0],
                 [name |-> "ALC_SRR_RTR", value |-> \h1],
                 [name |-> "ALC_IDE", value |-> \h2],
                 [name |-> "ALC_EXTENSION", value |-> \h3],
                 [name |-> "ALC_RTR", value |-> \h4] >>]

ctu_can_fd_trv_delay_ssp_cfg ==
  [name |-> "ctu_can_fd_trv_delay_ssp_cfg", raw |-> "u32",
   s |-> << [dir |-> "#ifdef", macro |-> "__LITTLE_ENDIAN_BITFIELD",
             fields |-> << [reg |-> "TRV_DELAY", name |-> "trv_delay_value", width |-> 16],
                           [reg |-> "SSP_CFG", name |-> "ssp_offset", width |-> 7],
                           [reg |-> "SSP_CFG", name |-> "reserved_23", width |-> 1],
                           [reg |-> "SSP_CFG", name |-> "ssp_src", width |-> 2],
                           [reg |-> "SSP_CFG", name |-> "reserved_31_26", width |-> 6] >>],
            [dir |-> "#else", macro |-> "",
             fields |-> << [name |-> "reserved_31_26", width |-> 6],
                           [name |-> "ssp_src", width |-> 2],
                           [name |-> "reserved_23", width |-> 1],
                           [name |-> "ssp_offset", width |-> 7],
                           [name |-> "trv_delay_value", width |-> 16] >>] >>]

ctu_can_fd_ssp_cfg_ssp_src ==
  [name |-> "ctu_can_fd_ssp_cfg_ssp_src", reg |-> "SSP_CFG", field |-> "ssp_src",
   consts |-> << [name |-> "SSP_SRC_MEASURED", value |-> \h0],
                 [name |-> "SSP_SRC_MEAS_N_OFFSET", value |-> \h1],
                 [name |-> "SSP_SRC_OFFSET", value |-> \h2] >>]

ctu_can_fd_rx_counter ==
  [name |-> "ctu_can_fd_rx_counter", raw |-> "u32",
   s |-> << [dir |-> "", macro |-> "",
             fields |-> << [reg |-> "RX_COUNTER", name |-> "rx_counter_val", width |-> 32] >>] >>]

ctu_can_fd_tx_counter ==
  [name |-> "ctu_can_fd_tx_counter", raw |-> "u32",
   s |-> << [dir |-> "", macro |-> "",
             fields |-> << [reg |-> "TX_COUNTER", name |-> "tx_counter_val", width |-> 32] >>] >>]

ctu_can_fd_debug_register ==
  [name |-> "ctu_can_fd_debug_register", raw |-> "u32",
   s |-> << [dir |-> "#ifdef", macro |-> "__LITTLE_ENDIAN_BITFIELD",
             fields |-> << [reg |-> "DEBUG_REGISTER", name |-> "stuff_count", width |-> 3],
                           [reg |-> "DEBUG_REGISTER", name |-> "destuff_count", width |-> 3],
                           [reg |-> "DEBUG_REGISTER", name |-> "pc_arb", width |-> 1],
                           [reg |-> "DEBUG_REGISTER", name |-> "pc_con", width |-> 1],
                           [reg |-> "DEBUG_REGISTER", name |-> "pc_dat", width |-> 1],
                           [reg |-> "DEBUG_REGISTER", name |-> "pc_crc", width |-> 1],
                           [reg |-> "DEBUG_REGISTER", name |-> "pc_eof", width |-> 1],
                           [reg |-> "DEBUG_REGISTER", name |-> "pc_ovr", width |-> 1],
                           [reg |-> "DEBUG_REGISTER", name |-> "pc_int", width |-> 1],
                           [reg |-> "DEBUG_REGISTER", name |-> "reserved_31_13", width |-> 19] >>],
            [dir |-> "#else", macro |-> "",
             fields |-> << [name |-> "reserved_31_13", width |-> 19],
                           [name |-> "pc_int", width |-> 1],
                           [name |-> "pc_ovr", width |-> 1],
                           [name |-> "pc_eof", width |-> 1],
                           [name |-> "pc_crc", width |-> 1],
                           [name |-> "pc_dat", width |-> 1],
                           [name |-> "pc_con", width |-> 1],
                           [name |-> "pc_arb", width |-> 1],
                           [name |-> "destuff_count", width |-> 3],
                           [name |-> "stuff_count", width |-> 3] >>] >>]

ctu_can_fd_yolo_reg ==
  [name |-> "ctu_can_fd_yolo_reg", raw |-> "u32",
   s |-> << [dir |-> "", macro |-> "",
             fields |-> << [reg |-> "YOLO_REG", name |-> "yolo_val", width |-> 32] >>] >>]

ctu_can_fd_timestamp_low ==
  [name |-> "ctu_can_fd_timestamp_low", raw |-> "u32",
   s |-> << [dir |-> "", macro |-> "",
             fields |-> << [reg |-> "TIMESTAMP_LOW", name |-> "timestamp_low", width |-> 32] >>] >>]

ctu_can_fd_timestamp_high ==
  [name |-> "ctu_can_fd_timestamp_high", raw |-> "u32",
   s |-> << [dir |-> "", macro |-> "",
             fields |-> << [reg |-> "TIMESTAMP_HIGH", name |-> "timestamp_high", width |-> 32] >>] >>]

ctu_can_fd_log_trig_config ==
  [name |-> "ctu_can_fd_log_trig_config", raw |-> "u32",
   s |-> << [dir |-> "#ifdef", macro |-> "__LITTLE_ENDIAN_BITFIELD",
             fields |-> << [reg |-> "LOG_TRIG_CONFIG", name |-> "t_sof", width |-> 1],
                           [reg |-> "LOG_TRIG_CONFIG", name |-> "t_arbl", width |-> 1],
                           [reg |-> "LOG_TRIG_CONFIG", name |-> "t_rev", width |-> 1],
                           [reg |-> "LOG_TRIG_CONFIG", name |-> "t_trv", width |-> 1],
                           [reg |-> "LOG_TRIG_CONFIG", name |-> "t_ovl", width |-> 1],
                           [reg |-> "LOG_TRIG_CONFIG", name |-> "t_err", width |-> 1],
                           [reg |-> "LOG_TRIG_CONFIG", name |-> "t_brs", width |-> 1],
                           [reg |-> "LOG_TRIG_CONFIG", name |-> "t_usrw", width |-> 1],
                           [reg |-> "LOG_TRIG_CONFIG", name |-> "t_arbs", width |-> 1],
                           [reg |-> "LOG_TRIG_CONFIG", name |-> "t_ctrs", width |-> 1],
                           [reg |-> "LOG_TRIG_CONFIG", name |-> "t_dats", width |-> 1],
                           [reg |-> "LOG_TRIG_CONFIG", name |-> "t_crcs", width |-> 1],
                           [reg |-> "LOG_TRIG_CONFIG", name |-> "t_ackr", width |-> 1],
                           [reg |-> "LOG_TRIG_CONFIG", name |-> "t_acknr", width |-> 1],
                           [reg |-> "LOG_TRIG_CONFIG", name |-> "t_ewlr", width |-> 1],
                           [reg |-> "LOG_TRIG_CONFIG", name |-> "t_erpc", width |-> 1],
                           [reg |-> "LOG_TRIG_CONFIG", name |-> "t_trs", width |-> 1],
                           [reg |-> "LOG_TRIG_CONFIG", name |-> "t_res", width |-> 1],
                           [reg |-> "LOG_TRIG_CONFIG", name |-> "reserved_31_18", width |-> 14] >>],
            [dir |-> "#else", macro |-> "",
             fields |-> << [name |-> "reserved_31_18", width |-> 14],
                           [name |-> "t_res", width |-> 1],
                           [name |-> "t_trs", width |-> 1],
                           [name |-> "t_erpc", width |-> 1],
                           [name |-> "t_ewlr", width |-> 1],
                           [name |-> "t_acknr", width |-> 1],
                           [name |-> "t_ackr", width |-> 1],
                           [name |-> "t_crcs", width |-> 1],
                           [name |-> "t_dats", width |-> 1],
                           [name |-> "t_ctrs", width |-> 1],
                           [name |-> "t_arbs", width |-> 1],
                           [name |-> "t_usrw", width |-> 1],
                           [name |-> "t_brs", width |-> 1],
                           [name |-> "t_err", width |-> 1],
                           [name |-> "t_ovl", width |-> 1],
                           [name |-> "t_trv", width |-> 1],
                           [name |-> "t_rev", width |-> 1],
                           [name |-> "t_arbl", width |-> 1],
                           [name |-> "t_sof", width |-> 1] >>] >>]

ctu_can_fd_log_capt_config ==
  [name |-> "ctu_can_fd_log_capt_config", raw |-> "u32",
   s |-> << [dir |-> "#ifdef", macro |-> "__LITTLE_ENDIAN_BITFIELD",
             fields |-> << [reg |-> "LOG_CAPT_CONFIG", name |-> "c_sof", width |-> 1],
                           [reg |-> "LOG_CAPT_CONFIG", name |-> "c_arbl", width |-> 1],
                           [reg |-> "LOG_CAPT_CONFIG", name |-> "c_rev", width |-> 1],
                           [reg |-> "LOG_CAPT_CONFIG", name |-> "c_trv", width |-> 1],
                           [reg |-> "LOG_CAPT_CONFIG", name |-> "c_ovl", width |-> 1],
                           [reg |-> "LOG_CAPT_CONFIG", name |-> "c_err", width |-> 1],
                           [reg |-> "LOG_CAPT_CONFIG", name |-> "c_brs", width |-> 1],
                           [reg |-> "LOG_CAPT_CONFIG", name |-> "c_arbs", width |-> 1],
                           [reg |-> "LOG_CAPT_CONFIG", name |-> "c_ctrs", width |-> 1],
                           [reg |-> "LOG_CAPT_CONFIG", name |-> "c_dats", width |-> 1],
                           [reg |-> "LOG_CAPT_CONFIG", name |-> "c_crcs", width |-> 1],
                           [reg |-> "LOG_CAPT_CONFIG", name |-> "c_ackr", width |-> 1],
                           [reg |-> "LOG_CAPT_CONFIG", name |-> "c_acknr", width |-> 1],
                           [reg |-> "LOG_CAPT_CONFIG", name |-> "c_ewlr", width |-> 1],
                           [reg |-> "LOG_CAPT_CONFIG", name |-> "c_erc", width |-> 1],
                           [reg |-> "LOG_CAPT_CONFIG", name |-> "c_trs", width |-> 1],
                           [reg |-> "LOG_CAPT_CONFIG", name |-> "c_res", width |-> 1],
                           [reg |-> "LOG_CAPT_CONFIG", name |-> "c_syne", width |-> 1],
                           [reg |-> "LOG_CAPT_CONFIG", name |-> "c_stuff", width |-> 1],
                           [reg |-> "LOG_CAPT_CONFIG", name |-> "c_destuff", width |-> 1],
                           [reg |-> "LOG_CAPT_CONFIG", name |-> "c_ovr", width |-> 1],
                           [reg |-> "LOG_CAPT_CONFIG", name |-> "reserved_31_21", width |-> 11] >>],
            [dir |-> "#else", macro |-> "",
             fields |-> << [name |-> "reserved_31_21", width |-> 11],
                           [name |-> "c_ovr", width |-> 1],
                           [name |-> "c_destuff", width |-> 1],
                           [name |-> "c_stuff", width |-> 1],
                           [name |-> "c_syne", width |-> 1],
                           [name |-> "c_res", width |-> 1],
                           [name |-> "c_trs", width |-> 1],
                           [name |-> "c_erc", width |-> 1],
                           [name |-> "c_ewlr", width |-> 1],
                           [name |-> "c_acknr", width |-> 1],
                           [name |-> "c_ackr", width |-> 1],
                           [name |-> "c_crcs", width |-> 1],
                           [name |-> "c_dats", width |-> 1],
                           [name |-> "c_ctrs", width |-> 1],
                           [name |-> "c_arbs", width |-> 1],
                           [name |-> "c_brs", width |-> 1],
                           [name |-> "c_err", width |-> 1],
                           [name |-> "c_ovl", width |-> 1],
                           [name |-> "c_trv", width |-> 1],
                           [name |-> "c_rev", width |-> 1],
                           [name |-> "c_arbl", width |-> 1],
                           [name |-> "c_sof", width |-> 1] >>] >>]

\* Mutation of ctu_can_fd_log_status_log_pointers: the fields of
\* LOG_POINTERS are declared before those of LOG_STATUS.
ctu_can_fd_log_status_log_pointers_swapped ==
  [name |-> "ctu_can_fd_log_status_log_pointers", raw |-> "u32",
   s |-> << [dir |-> "#ifdef", macro |-> "__LITTLE_ENDIAN_BITFIELD",
             fields |-> << [reg |-> "LOG_POINTERS", name |-> "log_wpp", width |-> 8],
                           [reg |-> "LOG_POINTERS", name |-> "log_rpp", width |-> 8],
                           [reg |-> "LOG_STATUS", name |-> "log_cfg", width |-> 1],
                           [reg |-> "LOG_STATUS", name |-> "log_rdy", width |-> 1],
                           [reg |-> "LOG_STATUS", name |-> "log_run", width |-> 1],
                           [reg |-> "LOG_STATUS", name |-> "reserved_6_3", width |-> 4],
                           [reg |-> "LOG_STATUS", name |-> "log_exist", width |-> 1],
                           [reg |-> "LOG_STATUS", name |-> "log_size", width |-> 8] >>],
            [dir |-> "#else", macro |-> "",
             fields |-> << [name |-> "log_size", width |-> 8],
                           [name |-> "log_exist", width |-> 1],
                           [name |-> "reserved_6_3", width |-> 4],
                           [name |-> "log_run", width |-> 1],
                           [name |-> "log_rdy", width |-> 1],
                           [name |-> "log_cfg", width |-> 1],
                           [name |-> "log_rpp", width |-> 8],
                           [name |-> "log_wpp", width |-> 8] >>] >>]

ctu_can_fd_log_status_log_pointers ==
  [name |-> "ctu_can_fd_log_status_log_pointers", raw |-> "u32",
   s |-> << [dir |-> "#ifdef", macro |-> "__LITTLE_ENDIAN_BITFIELD",
             fields |-> << [reg |-> "LOG_STATUS", name |-> "log_cfg", width |-> 1],
                           [reg |-> "LOG_STATUS", name |-> "log_rdy", width |-> 1],
                           [reg |-> "LOG_STATUS", name |-> "log_run", width |-> 1],
                           [reg |-> "LOG_STATUS", name |-> "reserved_6_3", width |-> 4],
                           [reg |-> "LOG_STATUS", name |-> "log_exist", width |-> 1],
                           [reg |-> "LOG_STATUS", name |-> "log_size", width |-> 8],
                           [reg |-> "LOG_POINTERS", name |-> "log_wpp", width |-> 8],
                           [reg |-> "LOG_POINTERS", name |-> "log_rpp", width |-> 8] >>],
            [dir |-> "#else", macro |-> "",
             fields |-> << [name |-> "log_rpp", width |-> 8],
                           [name |-> "log_wpp", width |-> 8],
                           [name |-> "log_size", width |-> 8],
                           [name |-> "log_exist", width |-> 1],
                           [name |-> "reserved_6_3", width |-> 4],
                           [name |-> "log_run", width |-> 1],
                           [name |-> "log_rdy", width |-> 1],
                           [name |-> "log_cfg", width |-> 1] >>] >>]

ctu_can_fd_log_command ==
  [name |-> "ctu_can_fd_log_command", raw |-> "u32",
   s |-> << [dir |-> "#ifdef", macro |-> "__LITTLE_ENDIAN_BITFIELD",
             fields |-> << [reg |-> "LOG_COMMAND", name |-> "log_str", width |-> 1],
                           [reg |-> "LOG_COMMAND", name |-> "log_abt", width |-> 1],
                           [reg |-> "LOG_COMMAND", name |-> "log_up", width |-> 1],
                           [reg |-> "LOG_COMMAND", name |-> "log_down", width |-> 1],
                           [reg |-> "LOG_COMMAND", name |-> "reserved_31_4", width |-> 28] >>],
            [dir |-> "#else", macro |-> "",
             fields |-> << [name |-> "reserved_31_4", width |-> 28],
                           [name |-> "log_down", width |-> 1],
                           [name |-> "log_up", width |-> 1],
                           [name |-> "log_abt", width |-> 1],
                           [name |-> "log_str", width |-> 1] >>] >>]

ctu_can_fd_log_capt_event_1 ==
  [name |-> "ctu_can_fd_log_capt_event_1", raw |-> "u32",
   s |-> << [dir |-> "", macro |-> "",
             fields |-> << [reg |-> "LOG_CAPT_EVENT_1", name |-> "event_ts_48_16", width |-> 32] >>] >>]

ctu_can_fd_log_capt_event_2 ==
  [name |-> "ctu_can_fd_log_capt_event_2", raw |-> "u32",
   s |-> << [dir |-> "#ifdef", macro |-> "__LITTLE_ENDIAN_BITFIELD",
             fields |-> << [reg |-> "LOG_CAPT_EVENT_2", name |-> "evnt_type", width |-> 5],
                           [reg |-> "LOG_CAPT_EVENT_2", name |-> "evnt_den", width |-> 3],
                           [reg |-> "LOG_CAPT_EVENT_2", name |-> "evnt_det", width |-> 5],
                           [reg |-> "LOG_CAPT_EVENT_2", name |-> "evnt_dea", width |-> 3],
                           [reg |-> "LOG_CAPT_EVENT_2", name |-> "event_ts_15_0", width |-> 16] >>],
            [dir |-> "#else", macro |-> "",
             fields |-> << [name |-> "event_ts_15_0", width |-> 16],
                           [name |-> "evnt_dea", width |-> 3],
                           [name |-> "evnt_det", width |-> 5],
                           [name |-> "evnt_den", width |-> 3],
                           [name |-> "evnt_type", width |-> 5] >>] >>]

\* Mutation of ctu_can_fd_log_capt_event_2_evnt_type: the codes are the bit
\* numbers themselves, counted from 0.
ctu_can_fd_log_capt_event_2_evnt_type_zero_based ==
  [name |-> "ctu_can_fd_log_capt_event_2_evnt_type", reg |-> "LOG_CAPT_EVENT_2", field |-> "evnt_type",
   consts |-> << [name |-> "SOF_EVNT", value |-> \h0],
                 [name |-> "ARBL_EVNT", value |-> \h1],
                 [name |-> "FREC_EVNT", value |-> \h2],
                 [name |-> "TRANV_EVNT", value |-> \h3],
                 [name |-> "OVRL_EVNT", value |-> \h4],
                 [name |-> "ERR_EVNT", value |-> \h5],
                 [name |-> "BRS_EVNT", value |-> \h6],
                 [name |-> "ARBS_EVNT", value |-> \h7],
                 [name |-> "CONS_EVNT", value |-> \h8],
                 [name |-> "DATS_EVNT", value |-> \h9],
                 [name |-> "CRCS_EVNT", value |-> \ha],
                 [name |-> "ACKR_EVNT", value |-> \hb],
                 [name |-> "ACKN_EVNT", value |-> \hc],
                 [name |-> "EWLR_EVNT", value |-> \hd],
                 [name |-> "FCSC_EVNT", value |-> \he],
                 [name |-> "TS_EVNT", value |-> \hf],
                 [name |-> "RS_EVNT", value |-> \h10],
                 [name |-> "SE_EVNT", value |-> \h11],
                 [name |-> "STF_EVNT", value |-> \h12],
                 [name |-> "DSTF_EVNT", value |-> \h13],
                 [name |-> "DOR_EVNT", value |-> \h14] >>]

ctu_can_fd_log_capt_event_2_evnt_type ==
  [name |-> "ctu_can_fd_log_capt_event_2_evnt_type", reg |-> "LOG_CAPT_EVENT_2", field |-> "evnt_type",
   consts |-> << [name |-> "SOF_EVNT", value |-> \h1],
                 [name |-> "ARBL_EVNT", value |-> \h2],
                 [name |-> "FREC_EVNT", value |-> \h3],
                 [name |-> "TRANV_EVNT", value |-> \h4],
                 [name |-> "OVRL_EVNT", value |-> \h5],
                 [name |-> "ERR_EVNT", value |-> \h6],
                 [name |-> "BRS_EVNT", value |-> \h7],
                 [name |-> "ARBS_EVNT", value |-> \h8],
                 [name |-> "CONS_EVNT", value |-> \h9],
                 [name |-> "DATS_EVNT", value |-> \ha],
                 [name |-> "CRCS_EVNT", value |-> \hb],
                 [name |-> "ACKR_EVNT", value |-> \hc],
                 [name |-> "ACKN_EVNT", value |-> \hd],
                 [name |-> "EWLR_EVNT", value |-> \he],
                 [name |-> "FCSC_EVNT", value |-> \hf],
                 [name |-> "TS_EVNT", value |-> \h10],
                 [name |-> "RS_EVNT", value |-> \h11],
                 [name |-> "SE_EVNT", value |-> \h12],
                 [name |-> "STF_EVNT", value |-> \h13],
                 [name |-> "DSTF_EVNT", value |-> \h14],
                 [name |-> "DOR_EVNT", value |-> \h15] >>]

\* Mutation of ctu_can_fd_log_capt_event_2_evnt_det: one name per code, the
\* first declared.
ctu_can_fd_log_capt_event_2_evnt_det_dedup ==
  [name |-> "ctu_can_fd_log_capt_event_2_evnt_det", reg |-> "LOG_CAPT_EVENT_2", field |-> "evnt_det",
   consts |-> << [name |-> "ISN_FDSTF", value |-> \h0],
                 [name |-> "BIT_ERR", value |-> \h1],
                 [name |-> "ST_ERR", value |-> \h2],
                 [name |-> "CRC_ERR", value |-> \h4],
                 [name |-> "ACK_ERR", value |-> \h8],
                 [name |-> "FRM_ERR", value |-> \h10] >>]

ctu_can_fd_log_capt_event_2_evnt_det ==
  [name |-> "ctu_can_fd_log_capt_event_2_evnt_det", reg |-> "LOG_CAPT_EVENT_2", field |-> "evnt_det",
   consts |-> << [name |-> "ISN_FDSTF", value |-> \h0],
                 [name |-> "ISN_FSTF", value |-> \h0],
                 [name |-> "BIT_ERR", value |-> \h1],
                 [name |-> "S_UP", value |-> \h1],
                 [name |-> "IS_SYNC", value |-> \h1],
                 [name |-> "IS_FDSTF", value |-> \h1],
                 [name |-> "IS_FSTF", value |-> \h1],
                 [name |-> "ST_ERR", value |-> \h2],
                 [name |-> "S_DOWN", value |-> \h2],
                 [name |-> "IS_PROP", value |-> \h2],
                 [name |-> "CRC_ERR", value |-> \h4],
                 [name |-> "IS_PH1", value |-> \h4],
                 [name |-> "ACK_ERR", value |-> \h8],
                 [name |-> "IS_PH2", value |-> \h8],
                 [name |-> "FRM_ERR", value |-> \h10] >>]

ctu_can_fd_log_capt_event_2_evnt_dea ==
  [name |-> "ctu_can_fd_log_capt_event_2_evnt_dea", reg |-> "LOG_CAPT_EVENT_2", field |-> "evnt_dea",
   consts |-> << [name |-> "NO_SNC", value |-> \h0],
                 [name |-> "HA_SNC", value |-> \h1],
                 [name |-> "RE_SNC", value |-> \h2] >>]

\* Mutation of Unions: the file has no union for YOLO_REG.
Unions_without_yolo_reg ==
  << ctu_can_fd_device_id_version, ctu_can_fd_mode_command_status_settings,
     ctu_can_fd_int_stat, ctu_can_fd_int_ena_set, ctu_can_fd_int_ena_clr,
     ctu_can_fd_int_mask_set, ctu_can_fd_int_mask_clr, ctu_can_fd_btr,
     ctu_can_fd_btr_fd, ctu_can_fd_ewl_erp_fault_state, ctu_can_fd_rxc_txc,
     ctu_can_fd_err_norm_err_fd, ctu_can_fd_ctr_pres,
     ctu_can_fd_filter_a_mask, ctu_can_fd_filter_a_val,
     ctu_can_fd_filter_b_mask, ctu_can_fd_filter_b_val,
     ctu_can_fd_filter_c_mask, ctu_can_fd_filter_c_val,
     ctu_can_fd_filter_ran_low, ctu_can_fd_filter_ran_high,
     ctu_can_fd_filter_control_filter_status, ctu_can_fd_rx_mem_info,
     ctu_can_fd_rx_pointers, ctu_can_fd_rx_status_rx_settings,
     ctu_can_fd_rx_data, ctu_can_fd_tx_status, ctu_can_fd_tx_command,
     ctu_can_fd_tx_priority, ctu_can_fd_err_capt_alc,
     ctu_can_fd_trv_delay_ssp_cfg, ctu_can_fd_rx_counter,
     ctu_can_fd_tx_counter, ctu_can_fd_debug_register, 
     ctu_can_fd_timestamp_low, ctu_can_fd_timestamp_high,
     ctu_can_fd_log_trig_config, ctu_can_fd_log_capt_config,
     ctu_can_fd_log_status_log_pointers, ctu_can_fd_log_command,
     ctu_can_fd_log_capt_event_1, ctu_can_fd_log_capt_event_2 >>

\* The layout unions of the file, in declaration order.
Unions ==
  << ctu_can_fd_device_id_version, ctu_can_fd_mode_command_status_settings,
     ctu_can_fd_int_stat, ctu_can_fd_int_ena_set, ctu_can_fd_int_ena_clr,
     ctu_can_fd_int_mask_set, ctu_can_fd_int_mask_clr, ctu_can_fd_btr,
     ctu_can_fd_btr_fd, ctu_can_fd_ewl_erp_fault_state, ctu_can_fd_rxc_txc,
     ctu_can_fd_err_norm_err_fd, ctu_can_fd_ctr_pres,
     ctu_can_fd_filter_a_mask, ctu_can_fd_filter_a_val,
     ctu_can_fd_filter_b_mask, ctu_can_fd_filter_b_val,
     ctu_can_fd_filter_c_mask, ctu_can_fd_filter_c_val,
     ctu_can_fd_filter_ran_low, ctu_can_fd_filter_ran_high,
     ctu_can_fd_filter_control_filter_status, ctu_can_fd_rx_mem_info,
     ctu_can_fd_rx_pointers, ctu_can_fd_rx_status_rx_settings,
     ctu_can_fd_rx_data, ctu_can_fd_tx_status, ctu_can_fd_tx_command,
     ctu_can_fd_tx_priority, ctu_can_fd_err_capt_alc,
     ctu_can_fd_trv_delay_ssp_cfg, ctu_can_fd_rx_counter,
     ctu_can_fd_tx_counter, ctu_can_fd_debug_register, ctu_can_fd_yolo_reg,
     ctu_can_fd_timestamp_low, ctu_can_fd_timestamp_high,
     ctu_can_fd_log_trig_config, ctu_can_fd_log_capt_config,
     ctu_can_fd_log_status_log_pointers, ctu_can_fd_log_command,
     ctu_can_fd_log_capt_event_1, ctu_can_fd_log_capt_event_2 >>

\* The field-value enumerations of the file, in declaration order.
Enums ==
  << ctu_can_fd_device_id_device_id, ctu_can_fd_mode_lom, ctu_can_fd_mode_stm,
     ctu_can_fd_mode_afm, ctu_can_fd_mode_fde, ctu_can_fd_mode_rtrp,
     ctu_can_fd_mode_tsm, ctu_can_fd_mode_acf, ctu_can_fd_settings_rtrle,
     ctu_can_fd_settings_ilbp, ctu_can_fd_settings_ena,
     ctu_can_fd_settings_nisofd, ctu_can_fd_rx_settings_rtsop,
     ctu_can_fd_tx_status_tx1s, ctu_can_fd_err_capt_err_pos,
     ctu_can_fd_err_capt_err_type, ctu_can_fd_alc_alc_id_field,
     ctu_can_fd_ssp_cfg_ssp_src, ctu_can_fd_log_capt_event_2_evnt_type,
     ctu_can_fd_log_capt_event_2_evnt_det,
     ctu_can_fd_log_capt_event_2_evnt_dea >>

----------------------------------------------------------------------------
(* Bounds of the exploration.                                              *)

\* Number of single-field stores explored after the word was last written
\* as a whole.
MaxWrites == 1

----------------------------------------------------------------------------
(* The C declarations as the compiler sees them.                           *)

\* uint32_t: the width of the raw member and of every bitfield's container.
WordBits == 32

Word == 0 .. (WordBits - 1)

Range(q) == {q[i] : i \in DOMAIN q}

Reverse(q) == [i \in 1 .. Len(q) |-> q[Len(q) + 1 - i]]

\* The build configurations: the set of macros that are defined when the
\* header is compiled.  The header tests a single macro.
BuildConfigs == {{"__LITTLE_ENDIAN_BITFIELD"}, {}}

\* Preprocessor: is branch i of the conditional in union u compiled?
\* Text outside a conditional always is; an #ifdef branch is when its macro
\* is defined; an #else branch is when the branch before it is not.
Active(u, i, m) ==
  LET act[k \in DOMAIN u.s] ==
        CASE u.s[k].dir = ""       -> TRUE
          [] u.s[k].dir = "#ifdef" -> u.s[k].macro \in m
          [] u.s[k].dir = "#else"  -> k > 1 /\ ~act[k - 1]
  IN act[i]

ActiveBranches(u, m) == {i \in DOMAIN u.s : Active(u, i, m)}

\* A bitfield declaration: uint32_t name : width.
Decl(f) == [name |-> f.name, width |-> f.width]

Decls(fs) == [k \in DOMAIN fs |-> Decl(fs[k])]

\* The members of struct s after preprocessing, in declaration order.
StructFields(u, m) ==
  LET from[i \in 0 .. Len(u.s)] ==
        IF i = 0 THEN << >>
        ELSE from[i - 1]
             \o (IF Active(u, i, m) THEN Decls(u.s[i].fields) ELSE << >>)
  IN from[Len(u.s)]

\* Sum of the widths of the first n declarations of fs.
SumWidths(fs, n) ==
  LET sum[k \in 0 .. Len(fs)] == IF k = 0 THEN 0 ELSE fs[k].width + sum[k - 1]
  IN sum[n]

\* Bitfield allocation order of the target: from bit 0 upward where
\* __LITTLE_ENDIAN_BITFIELD is defined, from bit 31 downward elsewhere.
LsbFirst(m) == "__LITTLE_ENDIAN_BITFIELD" \in m

\* Bit position of the least significant bit of the i-th declaration.
Pos(fs, i, lsb) ==
  IF lsb THEN SumWidths(fs, i - 1) ELSE WordBits - SumWidths(fs, i)

\* struct s as the compiler lays it out: every member with the position
\* of its least significant bit.
Layout(u, m) ==
  LET fs == StructFields(u, m)
      lay[n \in 0 .. Len(fs)] ==
        IF n = 0 THEN << >>
        ELSE Append(lay[n - 1],
                    [name |-> fs[n].name, width |-> fs[n].width,
                     pos |-> Pos(fs, n, LsbFirst(m))])
  IN lay[Len(fs)]

\* The bits of the word a laid-out field f occupies.
FieldBits(f) == f.pos .. (f.pos + f.width - 1)

\* value = u.s.f: (u32 >> position) mod 2^width.
ReadField(raw, f) == {b - f.pos : b \in raw \cap FieldBits(f)}

\* Mutation of StoreField: the mask that clears the old value is one bit
\* too wide.
StoreFieldWideMask(raw, f, x) ==
  ((raw \ (f.pos .. (f.pos + f.width)))
     \cup {b + f.pos : b \in x \cap (0 .. (f.width - 1))})
  \cap Word

\* u.s.f = x: x is truncated to the field's width and replaces the field's
\* bits; the union aliases the struct with the 32 bits of u32.
StoreField(raw, f, x) ==
  ((raw \ FieldBits(f)) \cup {b + f.pos : b \in x \cap (0 .. (f.width - 1))})
  \cap Word

\* Store x[i] into every field i of the first n, in declaration order.
RECURSIVE StoreAll(_, _, _, _)
StoreAll(raw, fs, n, x) ==
  IF n = 0 THEN raw
  ELSE StoreField(StoreAll(raw, fs, n - 1, x), fs[n], x[n])

\* The bits of a numeric constant below 2^31.
Bits(n) == {i \in 0 .. 30 : (n \div (2 ^ i)) % 2 = 1}

----------------------------------------------------------------------------
(* Registers and their layouts.                                            *)

\* Mutation of Registers: the k-th data word of a TXT buffer lies 4 * k
\* bytes into the buffer.
RegistersWordsFromZero ==
  {IF r.offset >= \h100 /\ r.offset < \h500
   THEN [r EXCEPT !.offset = r.offset + 4] ELSE r :
     r \in Range(ctu_can_fd_can_registers)}

Registers == Range(ctu_can_fd_can_registers)

\* The enum constant of the register a group comment of a struct names.
RegName(group) == "CTU_CAN_FD_" \o group

\* The registers a union describes: those named by the group comments of
\* its field list, in declaration order.
Groups(u) ==
  LET fs == u.s[1].fields
      from[n \in 0 .. Len(fs)] ==
        IF n = 0 THEN << >>
        ELSE IF n > 1 /\ fs[n].reg = fs[n - 1].reg THEN from[n - 1]
             ELSE Append(from[n - 1], fs[n].reg)
  IN from[Len(fs)]

RegistersOf(u) ==
  {r \in Registers : \E g \in Range(Groups(u)) : r.name = RegName(g)}

\* The unions that describe the register named rn.
LayoutsOf(rn) ==
  {u \in Range(Unions) : \E g \in Range(Groups(u)) : RegName(g) = rn}

UnionNamed(n) == CHOOSE u \in Range(Unions) : u.name = n

RegisterNames == {r.name : r \in Registers}

UnionNames == {u.name : u \in Range(Unions)}

\* Mutation of Offset: registers are addressed by the offset of their word.
OffsetWordAligned(rn) ==
  ((CHOOSE r \in Registers : r.name = rn).offset \div 4) * 4

Offset(rn) == (CHOOSE r \in Registers : r.name = rn).offset

\* For every register, the name of the union that describes it, "" if the
\* file has none.
LayoutTable ==
  {[reg |-> rn,
    un  |-> IF LayoutsOf(rn) = {} THEN ""
            ELSE (CHOOSE u \in LayoutsOf(rn) : TRUE).name] : rn \in RegisterNames}

LayoutOf(rn) == (CHOOSE e \in LayoutTable : e.reg = rn).un

\* struct s of every union in every build, laid out.
StructTable ==
  {[un |-> u.name, macros |-> m, s |-> Layout(u, m)] :
     u \in Range(Unions), m \in BuildConfigs}

\* struct s of the union named n in build m, empty without a union.
StructOf(n, m) ==
  IF n = "" THEN << >>
  ELSE (CHOOSE e \in StructTable : e.un = n /\ e.macros = m).s

\* The fields of an enumeration's register that carry its name: the
\* position in struct fs of the field enumeration e gives values for.
FieldIndex(fs, name) == CHOOSE i \in DOMAIN fs : fs[i].name = name

\* The names an enumeration gives to the numeric code v.
NamesOf(e, v) == {c.name : c \in {d \in Range(e.consts) : d.value = v}}

EnumNamed(n) == CHOOSE e \in Range(Enums) : e.name = n

\* The registers every union describes.
RegistersTable ==
  {[un |-> u.name, regs |-> RegistersOf(u), groups |-> Groups(u)] :
     u \in Range(Unions)}

RegsOf(n) == (CHOOSE e \in RegistersTable : e.un = n).regs

GroupsOf(n) == (CHOOSE e \in RegistersTable : e.un = n).groups

\* Position of register rn in the enum.
Index(rn) ==
  CHOOSE i \in DOMAIN ctu_can_fd_can_registers :
    ctu_can_fd_can_registers[i].name = rn

\* Does union u have an #ifdef / #else pair?
IsConditional(u) ==
  /\ Len(u.s) = 2
  /\ u.s[1].dir = "#ifdef"
  /\ u.s[2].dir = "#else"

\* The branches compiled in every conditional union in every build.
ActiveTable ==
  {[un |-> u.name, macros |-> m, active |-> ActiveBranches(u, m)] :
     u \in {v \in Range(Unions) : IsConditional(v)}, m \in BuildConfigs}

\* The TXT buffer data words: the registers of the buffer region
\* 0x100 .. 0x4ff.
TxtBufferWords ==
  {r.name : r \in {q \in Registers : q.offset >= \h100 /\ q.offset < \h500}}

\* Byte offset of the 32-bit word register rn is laid out in: the offset of
\* the first register of its union, its own offset without a union.
Base(rn) ==
  IF LayoutOf(rn) = "" THEN Offset(rn)
  ELSE LET offs == {r.offset : r \in RegsOf(LayoutOf(rn))}
       IN CHOOSE o \in offs : \A p \in offs : o <= p

\* Width of the field enumeration e names the values of.
EnumWidth(e) ==
  LET fs == StructOf(LayoutOf(RegName(e.reg)), {})
  IN fs[FieldIndex(fs, e.field)].width

\* The register named by the group comment that stands over field name of
\* union u.  The comments are written in the #ifdef list (the only list of
\* a union without a conditional).
GroupOfField(u, name) ==
  LET fs == u.s[1].fields
  IN fs[CHOOSE i \in DOMAIN fs : fs[i].name = name].reg

\* For every register with a union, in every build: the bits of the word
\* taken by the fields under the register's group comment.
GroupTable ==
  UNION {{[reg    |-> RegName(g),
           macros |-> m,
           bits   |-> UNION {FieldBits(f) :
                        f \in {h \in Range(Layout(u, m)) :
                                 GroupOfField(u, h.name) = g}}] :
            g \in Range(Groups(u)), m \in BuildConfigs} :
         u \in Range(Unions)}

GroupBits(rn, m) ==
  (CHOOSE e \in GroupTable : e.reg = rn /\ e.macros = m).bits

----------------------------------------------------------------------------
(* Access to one register word.                                            *)

NoAccess ==
  [op |-> "none", field |-> 0, val |-> {}, vals |-> << >>,
   enum |-> "", const |-> "", num |-> 0]

\* Raw values written through u32: 0, 0xffffffff, 0x55555555, 0xaaaaaaaa.
RawValues ==
  { {}, Word, {b \in Word : b % 2 = 0}, {b \in Word : b % 2 = 1} }

\* In-range values stored into a field of width w: 0, 1, 2^w - 1, 2^(w-1).
FieldValues(w) == { {}, {0}, 0 .. (w - 1), {w - 1} }

\* Assignments of in-range values to all fields of a struct.
StructPatterns == {"odd", "even", "low"}

Assignment(fs, p) ==
  [i \in DOMAIN fs |->
     CASE p = "odd"  -> IF i % 2 = 1 THEN 0 .. (fs[i].width - 1) ELSE {}
       [] p = "even" -> IF i % 2 = 0 THEN 0 .. (fs[i].width - 1) ELSE {}
       [] p = "low"  -> {0}]

Init ==
  /\ macros \in BuildConfigs
  /\ prev = ""
  /\ reg = ""
  /\ un = ""
  /\ s = << >>
  /\ u32 = {}
  /\ nw = 0
  /\ last = NoAccess

\* The driver addresses register r and takes the union that describes it.
Select(r) ==
  /\ reg = ""
  /\ reg' = r.name
  /\ un' = LayoutOf(r.name)
  /\ s' = StructOf(LayoutOf(r.name), macros)
  /\ u32' = {}
  /\ nw' = 0
  /\ last' = [NoAccess EXCEPT !.op = "select"]
  /\ UNCHANGED << macros, prev >>

\* The access is over.
Release ==
  /\ reg # ""
  /\ reg' = ""
  /\ un' = ""
  /\ s' = << >>
  /\ u32' = {}
  /\ nw' = 0
  /\ last' = NoAccess
  /\ UNCHANGED << macros, prev >>

\* u.u32 = v (or a plain 32-bit store for a register without a union).
WriteRaw(v) ==
  /\ reg # ""
  /\ u32' = v
  /\ nw' = 0
  /\ last' = [NoAccess EXCEPT !.op = "raw", !.val = v]
  /\ UNCHANGED << macros, prev, reg, un, s >>

\* u.s.<field i> = x.
WriteField(i, x) ==
  /\ un # ""
  /\ nw < MaxWrites
  /\ i \in DOMAIN s
  /\ x \in FieldValues(s[i].width)
  /\ u32' = StoreField(u32, s[i], x)
  /\ nw' = nw + 1
  /\ last' = [NoAccess EXCEPT !.op = "field", !.field = i, !.val = x]
  /\ UNCHANGED << macros, prev, reg, un, s >>

\* Every field of u.s is assigned, in declaration order, before any single
\* field is.
WriteStruct(p) ==
  /\ un # ""
  /\ nw = 0
  /\ LET x == Assignment(s, p) IN
       /\ u32' = StoreAll(u32, s, Len(s), x)
       /\ last' = [NoAccess EXCEPT !.op = "struct", !.vals = x]
  /\ nw' = 0
  /\ UNCHANGED << macros, prev, reg, un, s >>

\* u.s.<field of e> = <k-th constant of enumeration e>.
WriteEnum(e, k) ==
  /\ un # ""
  /\ nw < MaxWrites
  /\ RegName(e.reg) \in RegisterNames
  /\ LayoutOf(RegName(e.reg)) = un
  /\ \E i \in DOMAIN s : s[i].name = e.field
  /\ k \in DOMAIN e.consts
  /\ LET i == FieldIndex(s, e.field)
         c == e.consts[k] IN
       /\ u32' = StoreField(u32, s[i], Bits(c.value))
       /\ last' = [NoAccess EXCEPT !.op = "enum", !.field = i,
                                   !.val = Bits(c.value), !.enum = e.name,
                                   !.const = c.name, !.num = c.value]
  /\ nw' = nw + 1
  /\ UNCHANGED << macros, prev, reg, un, s >>

Next ==
  \/ \E r \in Registers : Select(r)
  \/ Release
  \/ \E v \in RawValues : WriteRaw(v)
  \/ \E i \in DOMAIN s : \E x \in FieldValues(s[i].width) : WriteField(i, x)
  \/ \E p \in StructPatterns : WriteStruct(p)
  \/ \E e \in Range(Enums) : \E k \in DOMAIN e.consts : WriteEnum(e, k)

Spec == Init /\ [][Next]_vars

----------------------------------------------------------------------------
(* Walk over the address map: registers are addressed one after another.   *)

Address(r) ==
  /\ prev' = reg
  /\ reg' = r.name
  /\ un' = LayoutOf(r.name)
  /\ s' = StructOf(LayoutOf(r.name), macros)
  /\ last' = [NoAccess EXCEPT !.op = "select"]
  /\ UNCHANGED << macros, u32, nw >>

NextMap == \E r \in Registers : Address(r)

SpecMap == Init /\ [][NextMap]_vars

----------------------------------------------------------------------------
(* Properties.                                                             *)

TypeOK ==
  /\ macros \in BuildConfigs
  /\ reg \in RegisterNames \cup {""}
  /\ un \in UnionNames \cup {""}
  /\ u32 \subseteq Word
  /\ nw \in 0 .. MaxWrites

LittleEndian == {"__LITTLE_ENDIAN_BITFIELD"}

BigEndian == {}

\* C1: in every union with an #ifdef __LITTLE_ENDIAN_BITFIELD / #else pair
\* the #else field list is the exact reverse of the #ifdef list, names and
\* widths included; so with the #ifdef list allocated upward from bit 0 and
\* the #else list downward from bit 31 every field has the same position
\* and width, and reads the same bits of the word, in both orderings.
C1_MirroredOrderings ==
  (un # "" /\ IsConditional(UnionNamed(un))) =>
    LET u  == UnionNamed(un)
        le == StructOf(un, LittleEndian)
        be == StructOf(un, BigEndian)
    IN /\ Decls(u.s[2].fields) = Reverse(Decls(u.s[1].fields))
       /\ Len(be) = Len(le)
       /\ \A i \in DOMAIN le :
            /\ be[Len(le) + 1 - i] = le[i]
            /\ ReadField(u32, be[Len(le) + 1 - i]) = ReadField(u32, le[i])

\* Reached: a field of the four-register union was stored in a big-endian
\* build.
C1_Witness ==
  /\ un = "ctu_can_fd_mode_command_status_settings"
  /\ macros = BigEndian
  /\ last.op = "field"
  /\ u32 # {}

\* C2: in every union the widths of the bitfields of struct s, reserved
\* padding included, sum to exactly 32 in either ordering; a union without a
\* conditional has a single field of width 32.
C2_WidthsSumTo32 ==
  un # "" =>
    LET u == UnionNamed(un) IN
      /\ \A i \in DOMAIN u.s :
           SumWidths(u.s[i].fields, Len(u.s[i].fields)) = WordBits
      /\ SumWidths(s, Len(s)) = WordBits
      /\ ~IsConditional(u) =>
           /\ Len(u.s) = 1
           /\ Len(u.s[1].fields) = 1
           /\ u.s[1].fields[1].width = WordBits

\* Reached: a union with three reserved single bits is accessed in a
\* big-endian build.
C2_Witness ==
  /\ un = "ctu_can_fd_btr_fd"
  /\ macros = BigEndian
  /\ last.op = "raw"
  /\ u32 = Word

\* The raw value the fields of the current struct recombine to.
Recombined ==
  UNION {{b + s[i].pos : b \in ReadField(u32, s[i])} : i \in DOMAIN s}

\* C3: for every raw value, the fields read from it recombine to it; after
\* in-range values were assigned to all fields, every field reads back the
\* value assigned; the fields cover the 32 bits and no bit is in two fields.
C3_RawFieldRoundTrip ==
  un # "" =>
    /\ Recombined = u32
    /\ last.op = "struct" =>
         \A i \in DOMAIN s : ReadField(u32, s[i]) = last.vals[i]
    /\ UNION {FieldBits(s[i]) : i \in DOMAIN s} = Word
    /\ SumWidths(s, Len(s)) = Cardinality(Word)

\* Reached: all five fields of BTR were assigned and the word is neither 0
\* nor all ones.
C3_Witness ==
  /\ un = "ctu_can_fd_btr"
  /\ last.op = "struct"
  /\ u32 # {}
  /\ u32 # Word

\* C4: the byte offsets of the address enum are pairwise distinct.
C4_OffsetsDistinct ==
  (prev # "" /\ prev # reg) => Offset(prev) # Offset(reg)

\* Reached: two registers of one word were addressed one after the other.
C4_Witness ==
  /\ prev = "CTU_CAN_FD_MODE"
  /\ reg = "CTU_CAN_FD_COMMAND"

\* C5: two registers described by different unions, or by none, have
\* disjoint 4-byte extents; registers that share a 32-bit word are described
\* by one union.
C5_NoOverlap ==
  (prev # "" /\ prev # reg) =>
    /\ (LayoutOf(prev) # un \/ un = "") =>
         \/ Base(prev) + 4 <= Base(reg)
         \/ Base(reg) + 4 <= Base(prev)
    /\ (Offset(prev) \div 4 = Offset(reg) \div 4) =>
         (un # "" /\ LayoutOf(prev) = un)

\* Reached: the last sub-register of one word and the register of the next
\* word were addressed one after the other.
C5_Witness ==
  /\ prev = "CTU_CAN_FD_SETTINGS"
  /\ reg = "CTU_CAN_FD_INT_STAT"

\* Every constant of every enumeration is below 2^w, w the width of the
\* enumeration's field.
EnumConstantsFit ==
  \A e \in Range(Enums) : \A c \in Range(e.consts) :
    /\ EnumWidth(e) <= 16
    /\ c.value < 2 ^ EnumWidth(e)

\* C6: every constant of a field-value enumeration is below 2^w, w the
\* width of the enumeration's field, and is read back unchanged after it was
\* stored into the field.
C6_EnumValuesFit ==
  /\ EnumConstantsFit
  /\ last.op = "enum" =>
       /\ s[last.field].name = EnumNamed(last.enum).field
       /\ last.num < 2 ^ s[last.field].width
       /\ ReadField(u32, s[last.field]) = Bits(last.num)

\* Reached: the largest constant of a 5-bit field, 0x1f, was stored.
C6_Witness ==
  /\ last.op = "enum"
  /\ last.const = "ERC_POS_OTHER"
  /\ macros = LittleEndian
  /\ {0, 1, 2, 3, 4} \subseteq u32

\* C7 as stated: every register of the address enum has a layout union.
C7_EveryRegisterHasLayout == reg # "" => un # ""

\* C7 amended: every register of the address enum except the twelve TXT
\* buffer data words has a layout union, which names the register in a
\* group comment and gives it at least one field; the TXT buffer data words
\* have none.
C7_RegistersOutsideTxtBuffersHaveLayout ==
  reg # "" =>
    /\ (un = "") <=> (reg \in TxtBufferWords)
    /\ Cardinality(TxtBufferWords) = 12
    /\ un # "" =>
         /\ reg \in {r.name : r \in RegsOf(un)}
         /\ \E f \in Range(UnionNamed(un).s[1].fields) : RegName(f.reg) = reg

\* Reached: a register that has a union of its own but no named bits apart
\* from one 32-bit field.
C7_Witness ==
  /\ reg = "CTU_CAN_FD_YOLO_REG"
  /\ un = "ctu_can_fd_yolo_reg"
  /\ last.op = "select"

\* C8 as stated: every union describes exactly one register or exactly two.
C8_OneOrTwoRegisters ==
  un # "" => Cardinality(RegsOf(un)) \in {1, 2}

\* C8 amended: every union describes between one and four registers, one
\* per group comment, which are consecutive in the address enum and lie in
\* one 32-bit word.
C8_OneToFourRegisters ==
  un # "" =>
    LET regs == RegsOf(un)
        idx  == {Index(r.name) : r \in regs}
    IN /\ Cardinality(regs) \in 1 .. 4
       /\ Cardinality(regs) = Len(GroupsOf(un))
       /\ \A a \in regs : \A b \in regs : a.offset \div 4 = b.offset \div 4
       /\ \A i \in idx : \A j \in idx : \A k \in i .. j : k \in idx

\* Reached: the union of MODE, COMMAND, STATUS and SETTINGS.
C8_Witness ==
  /\ un = "ctu_can_fd_mode_command_status_settings"
  /\ reg = "CTU_CAN_FD_STATUS"
  /\ Cardinality(RegsOf(un)) = 4

\* C9 as stated: in the event-detail enumeration exactly two names carry
\* value 0x0 and exactly two names carry value 0x1.
C9_TwoNamesPerSharedCode ==
  (last.op = "enum" /\ last.enum = "ctu_can_fd_log_capt_event_2_evnt_det"
     /\ last.num \in {0, 1}) =>
    Cardinality(NamesOf(EnumNamed(last.enum), last.num)) = 2

\* C9 amended: the names of the event-detail enumeration that share a code
\* are all kept as separate names; two names carry value 0x0 and five names
\* carry value 0x1.
C9_AliasesKept ==
  (last.op = "enum" /\ last.enum = "ctu_can_fd_log_capt_event_2_evnt_det") =>
    LET e == EnumNamed(last.enum) IN
      /\ last.const \in NamesOf(e, last.num)
      /\ Cardinality({c.name : c \in Range(e.consts)}) = Len(e.consts)
      /\ last.num = 0 => Cardinality(NamesOf(e, last.num)) = 2
      /\ last.num = 1 => Cardinality(NamesOf(e, last.num)) = 5

\* Reached: the last of the five names of code 0x1 was stored.
C9_Witness ==
  /\ last.op = "enum"
  /\ last.const = "IS_FSTF"
  /\ ReadField(u32, s[last.field]) = {0}

\* C10: in every build exactly one of the two orderings of every
\* conditional union is compiled, and it is the same one in all unions.
C10_OneOrderingActive ==
  \E k \in {1, 2} :
    \A e \in ActiveTable : e.macros = macros => e.active = {k}

\* Reached: a conditional union is accessed through its fields in a build
\* that does not define the macro.
C10_Witness ==
  /\ macros = BigEndian
  /\ un = "ctu_can_fd_int_stat"
  /\ last.op = "field"
  /\ last.field = 1


\* The bits of the word that belong to register rn by its byte offset: from
\* bit 8 * (offset mod 4) up to the bit before the one the next register of
\* the same union starts at, up to bit 31 for the last.
ByteRange(rn) ==
  LET o     == Offset(rn)
      later == {r.offset : r \in {q \in RegsOf(LayoutOf(rn)) : q.offset > o}}
      next  == CHOOSE p \in later : \A q \in later : p <= q
      hi    == IF later = {} THEN WordBits ELSE 8 * (next % 4)
  IN (8 * (o % 4)) .. (hi - 1)

\* C11: in every union that packs several registers, the fields under the
\* group comment of the register at byte offset o start at bit 8 * (o mod 4)
\* and none of them reaches the first bit of the next register of the word.
C11_GroupsInsideByteRange ==
  (un # "" /\ Cardinality(RegsOf(un)) > 1) =>
    LET bits == GroupBits(reg, macros)
        own  == ByteRange(reg)
    IN /\ bits # {}
       /\ \A b \in bits : b \in own
       /\ \E b \in bits : \A c \in own : b <= c


UpperCase == "ABCDEFGHIJKLMNOPQRSTUVWXYZ"

LowerCase == "abcdefghijklmnopqrstuvwxyz"

\* The character c in lower case.
ToLower(c) ==
  LET up == {k \in 1 .. Len(UpperCase) : SubSeq(UpperCase, k, k) = c}
  IN IF up = {} THEN c
     ELSE LET k == CHOOSE n \in up : TRUE IN SubSeq(LowerCase, k, k)

\* The string str in lower case.
Lower(str) ==
  LET low[n \in 0 .. Len(str)] ==
        IF n = 0 THEN "" ELSE low[n - 1] \o ToLower(SubSeq(str, n, n))
  IN low[Len(str)]

\* Lower-case names of the first n registers of groups, joined by "_".
Joined(groups, n) ==
  LET join[k \in 1 .. Len(groups)] ==
        IF k = 1 THEN Lower(groups[1])
        ELSE join[k - 1] \o "_" \o Lower(groups[k])
  IN join[n]

\* The name of every union is ctu_can_fd_ followed by the names of the
\* registers of its group comments, in the order of the #ifdef list.
UnionNamesFollowGroups ==
  \A u \in Range(Unions) :
    u.name = "ctu_can_fd_" \o Joined(Groups(u), Len(Groups(u)))

\* Position of register rn among the group comments of its union.
GroupIndex(rn) ==
  LET g == GroupsOf(LayoutOf(rn))
  IN CHOOSE k \in DOMAIN g : RegName(g[k]) = rn

\* C13: a register with a union of its own lies at a multiple of 4; in a
\* union that packs several registers the first one lies at a multiple of 4,
\* all of them have the same offset div 4, and their offsets increase
\* strictly in the order of their group comments in the #ifdef list, which
\* is the order of their names in the union's name.
C13_OffsetsAlignedAndOrdered ==
  /\ UnionNamesFollowGroups
  /\ un # "" =>
       LET first == RegName(GroupsOf(un)[1]) IN
         /\ Offset(first) % 4 = 0
         /\ Len(GroupsOf(un)) = 1 => (reg = first /\ Offset(reg) % 4 = 0)
         /\ Offset(reg) \div 4 = Offset(first) \div 4
         /\ (prev # "" /\ LayoutOf(prev) = un
               /\ GroupIndex(prev) < GroupIndex(reg)) =>
              Offset(prev) < Offset(reg)

\* Reached: the two registers of the logger's status word, addressed in
\* the order of the union's name.
C13_Witness ==
  /\ prev = "CTU_CAN_FD_LOG_STATUS"
  /\ reg = "CTU_CAN_FD_LOG_POINTERS"
  /\ un = "ctu_can_fd_log_status_log_pointers"


\* The numbers of the TXT buffers.
TxtBuffers == 1 .. 4

HasField(fs, name) == \E i \in DOMAIN fs : fs[i].name = name

FieldNamed(fs, name) == fs[FieldIndex(fs, name)]

\* The bits of the current struct taken by the field called name, none if
\* it has no such field.
BitsOfField(name) ==
  IF HasField(s, name) THEN FieldBits(FieldNamed(s, name)) ELSE {}

\* C14: for every TXT buffer n in 1..4, tx<n>s takes bits 4(n-1)..4(n-1)+3
\* of TX_STATUS, txb<n> bit 7+n of TX_COMMAND and txt<n>p bits
\* 4(n-1)..4(n-1)+2 of TX_PRIORITY; every status field is as wide as tx1s,
\* and every constant of enum ctu_can_fd_tx_status_tx1s, stored into any of
\* the four status fields, is read back unchanged, different constants as
\* different values.
C14_TxtBuffersIndexedUniformly ==
  /\ un = "ctu_can_fd_tx_status" =>
       \A n \in TxtBuffers :
         LET name == "tx" \o ToString(n) \o "s"
             f    == FieldNamed(s, name)
             cs   == Range(ctu_can_fd_tx_status_tx1s.consts)
         IN /\ BitsOfField(name) = (4 * (n - 1)) .. (4 * (n - 1) + 3)
            /\ f.width = FieldNamed(s, "tx1s").width
            /\ \A c \in cs :
                 /\ c.value < 2 ^ f.width
                 /\ ReadField(StoreField(u32, f, Bits(c.value)), f)
                      = Bits(c.value)
            /\ \A c \in cs : \A e \in cs :
                 c.name # e.name =>
                   StoreField(u32, f, Bits(c.value))
                     # StoreField(u32, f, Bits(e.value))
  /\ un = "ctu_can_fd_tx_command" =>
       \A n \in TxtBuffers : BitsOfField("txb" \o ToString(n)) = {7 + n}
  /\ un = "ctu_can_fd_tx_priority" =>
       \A n \in TxtBuffers :
         BitsOfField("txt" \o ToString(n) \o "p")
           = (4 * (n - 1)) .. (4 * (n - 1) + 2)

\* Reached: the code of TXT_ETY, 0x8, was stored into the status field of
\* the fourth buffer in a big-endian build.
C14_Witness ==
  /\ un = "ctu_can_fd_tx_status"
  /\ macros = BigEndian
  /\ last.op = "field"
  /\ s[last.field].name = "tx4s"
  /\ last.val = {3}
  /\ u32 = {15}


\* The capture-configuration bits: the fields of LOG_CAPT_CONFIG whose
\* name starts with c_, in the order of the #ifdef list.
CaptureFields ==
  SelectSeq(ctu_can_fd_log_capt_config.s[1].fields,
            LAMBDA f : Len(f.name) > 2 /\ SubSeq(f.name, 1, 2) = "c_")

\* Position of the constant called name in enumeration e.
ConstIndex(e, name) == CHOOSE k \in DOMAIN e.consts : e.consts[k].name = name

\* The event-type enumeration has one constant per capture bit, 21 of
\* them, and the k-th constant has value k.
EventTypesConsecutive ==
  LET e == ctu_can_fd_log_capt_event_2_evnt_type IN
    /\ Len(e.consts) = Len(CaptureFields)
    /\ Len(e.consts) = 21
    /\ \A k \in DOMAIN e.consts : e.consts[k].value = k

\* C15: enum ctu_can_fd_log_capt_event_2_evnt_type has as many constants as
\* LOG_CAPT_CONFIG has c_* bits, 21; their values are 0x1..0x15 in
\* declaration order, and the k-th constant is the bit position of the k-th
\* c_* field plus 1, so that no constant is 0 and no code is left out.
C15_EventTypesMatchCaptureBits ==
  /\ EventTypesConsecutive
  /\ (last.op = "enum"
        /\ last.enum = "ctu_can_fd_log_capt_event_2_evnt_type") =>
       LET k   == ConstIndex(EnumNamed(last.enum), last.const)
           cfg == StructOf("ctu_can_fd_log_capt_config", macros)
           c   == FieldNamed(cfg, CaptureFields[k].name)
       IN /\ c.width = 1
          /\ last.num = c.pos + 1
          /\ last.num \in 1 .. 21
          /\ ReadField(u32, s[last.field]) = Bits(last.num)

\* Reached: the last event type, DOR_EVNT = 0x15, was stored into
\* evnt_type in a big-endian build.
C15_Witness ==
  /\ last.op = "enum"
  /\ last.const = "DOR_EVNT"
  /\ last.num = 21
  /\ macros = BigEndian
  /\ u32 = {0, 2, 4}


\* Is name the name of a padding field?
IsReserved(name) == Len(name) > 9 /\ SubSeq(name, 1, 9) = "reserved_"

\* The unions of the interrupt enable and mask registers.
IntFieldUnions ==
  {"ctu_can_fd_int_ena_set", "ctu_can_fd_int_ena_clr",
   "ctu_can_fd_int_mask_set", "ctu_can_fd_int_mask_clr"}

\* The interrupt flags: the named fields of INT_STAT as build m lays them
\* out.
IntFlags(m) ==
  {f \in Range(StructOf("ctu_can_fd_int_stat", m)) : ~IsReserved(f.name)}

\* The interrupt bits.
IntBits == 0 .. 11

\* C16: the 12 named flags of INT_STAT, rxi .. txbhci, take bits 0..11, one
\* bit each; int_ena_set, int_ena_clr, int_mask_set and int_mask_clr each
\* take exactly bits 0..11 of their register; bits 12..31 are padding in all
\* five.  So a mask of INT_STAT flags stored into an enable or mask field
\* sets, in the register's word, exactly the bits of those flags.
C16_InterruptBitsShared ==
  /\ un = "ctu_can_fd_int_stat" =>
       LET flags == {f \in Range(s) : ~IsReserved(f.name)} IN
         /\ Cardinality(flags) = 12
         /\ \A f \in flags : f.width = 1
         /\ {f.pos : f \in flags} = IntBits
         /\ BitsOfField("rxi") = {0}
         /\ BitsOfField("txbhci") = {11}
         /\ \A f \in Range(s) : IsReserved(f.name) => FieldBits(f) = 12 .. 31
  /\ un \in IntFieldUnions =>
       LET name == Lower(GroupsOf(un)[1]) IN
         /\ BitsOfField(name) = IntBits
         /\ \A f \in Range(s) : f.name # name =>
              (IsReserved(f.name) /\ FieldBits(f) = 12 .. 31)
         /\ (last.op = "field" /\ s[last.field].name = name) =>
              /\ u32 \cap IntBits = last.val
              /\ \A f \in IntFlags(macros) :
                   (ReadField(u32, f) = {0}) <=> (f.pos \in last.val)

\* Reached: the mask of the last flag, txbhci, was stored into int_mask_clr
\* in a big-endian build.
C16_Witness ==
  /\ un = "ctu_can_fd_int_mask_clr"
  /\ macros = BigEndian
  /\ last.op = "field"
  /\ s[last.field].name = "int_mask_clr"
  /\ last.val = {11}
  /\ u32 = {11}


\* The data words of a TXT buffer the address enum lists.
ListedWords == {1, 2, 20}

\* The enum constant of data word k of TXT buffer n.
TxtbData(n, k) ==
  "CTU_CAN_FD_TXTB" \o ToString(n) \o "_DATA_" \o ToString(k)

\* The buffer and word numbers of every listed TXT buffer data word.
TxtbTable ==
  {[name |-> TxtbData(n, k), n |-> n, k |-> k] :
     n \in TxtBuffers, k \in ListedWords}

\* Buffer and word number of the TXT buffer data word named rn.
TxtbOf(rn) == CHOOSE e \in TxtbTable : e.name = rn

\* Byte offset of the first data word of TXT buffer n.
TxtbBase(n) == Offset(TxtbData(n, 1))

\* C17: the TXT buffer data words are CTU_CAN_FD_TXTBn_DATA_k for n in 1..4
\* and k in {1, 2, 20}, and TXTBn_DATA_k lies at 0x100 * n + 4 * (k - 1);
\* so word k has the same offset inside every buffer, the buffers are 0x100
\* bytes apart, and the 20 words of a buffer end before the next buffer
\* and before the log registers, which start at 0x500.
C17_TxtBufferAddresses ==
  /\ TxtBufferWords = {e.name : e \in TxtbTable}
  /\ reg \in TxtBufferWords =>
       LET w == TxtbOf(reg) IN
         /\ Offset(reg) = \h100 * w.n + 4 * (w.k - 1)
         /\ Offset(reg) + 4 <= TxtbBase(w.n) + 4 * 20
         /\ Offset("CTU_CAN_FD_LOG_TRIG_CONFIG") = \h500
         /\ (prev # "" /\ prev \notin TxtBufferWords
               /\ Offset(prev) > Offset(reg)) =>
              /\ TxtbBase(w.n) + 4 * 20 <= Offset(prev)
              /\ Offset(prev) >= \h500
         /\ prev \in TxtBufferWords =>
              LET v == TxtbOf(prev) IN
                /\ v.k = w.k =>
                     /\ Offset(prev) - TxtbBase(v.n)
                          = Offset(reg) - TxtbBase(w.n)
                     /\ Offset(reg) - Offset(prev) = \h100 * (w.n - v.n)
                /\ v.n < w.n => TxtbBase(v.n) + 4 * 20 <= TxtbBase(w.n)

\* Reached: the last word of buffer 1 and the first word of buffer 2 were
\* addressed one after the other.
C17_Witness ==
  /\ prev = "CTU_CAN_FD_TXTB1_DATA_20"
  /\ reg = "CTU_CAN_FD_TXTB2_DATA_1"
  /\ un = ""


Digits == "0123456789"

IsDigit(c) == \E k \in 1 .. Len(Digits) : SubSeq(Digits, k, k) = c

DigitValue(c) == (CHOOSE k \in 1 .. Len(Digits) : SubSeq(Digits, k, k) = c) - 1

\* Is str a decimal numeral?
IsNumeral(str) ==
  /\ Len(str) > 0
  /\ \A k \in 1 .. Len(str) : IsDigit(SubSeq(str, k, k))

\* The number the decimal numeral str denotes.
Decimal(str) ==
  LET val[k \in 0 .. Len(str)] ==
        IF k = 0 THEN 0 ELSE 10 * val[k - 1] + DigitValue(SubSeq(str, k, k))
  IN val[Len(str)]

\* What follows reserved_ in the name of a padding field, split at the
\* first underscore: <<N>> for reserved_N, <<H, L>> for reserved_H_L.
ReservedSuffix(name) ==
  LET rest == SubSeq(name, 10, Len(name))
      seps == {k \in 1 .. Len(rest) : SubSeq(rest, k, k) = "_"}
  IN IF seps = {} THEN << rest >>
     ELSE LET k == CHOOSE n \in seps : \A j \in seps : n <= j
          IN << SubSeq(rest, 1, k - 1), SubSeq(rest, k + 1, Len(rest)) >>

\* The bits the name of a padding field states: bit N for reserved_N, bits
\* L..H for reserved_H_L.
ReservedBits(name) ==
  LET parts == ReservedSuffix(name)
  IN Decimal(parts[Len(parts)]) .. Decimal(parts[1])

\* C18: every padding field is placed where its name says, in every union
\* and in both orderings: reserved_N is 1 bit wide and is bit N of the
\* word, reserved_H_L is H-L+1 bits wide and takes exactly bits L..H; a
\* value stored into it is found in those bits of u32.
C18_ReservedNamesStatePosition ==
  /\ \A i \in DOMAIN s :
       IsReserved(s[i].name) =>
         LET parts == ReservedSuffix(s[i].name) IN
           /\ \A k \in DOMAIN parts : IsNumeral(parts[k])
           /\ Len(parts) = 1 => s[i].width = 1
           /\ Len(parts) = 2 =>
                s[i].width = Decimal(parts[1]) - Decimal(parts[2]) + 1
           /\ s[i].pos = Decimal(parts[Len(parts)])
           /\ FieldBits(s[i]) = ReservedBits(s[i].name)
  /\ (last.op = "field" /\ IsReserved(s[last.field].name)) =>
       LET own == ReservedBits(s[last.field].name)
           low == CHOOSE b \in own : \A c \in own : b <= c
       IN {b - low : b \in u32 \cap own} = last.val

\* Reached: all ones were stored into reserved_6_3 of the logger's status
\* word in a big-endian build, where it is declared fifth, not fourth.
C18_Witness ==
  /\ un = "ctu_can_fd_log_status_log_pointers"
  /\ macros = BigEndian
  /\ last.op = "field"
  /\ s[last.field].name = "reserved_6_3"
  /\ last.field = 5
  /\ u32 = {3, 4, 5, 6}

====
